---- MODULE Spec2Model ----
(***************************************************************************)
(* Matrica Networks backend: the credential authentication and session     *)
(* security core (backend/auth.py) with the login controller that calls    *)
(* it (backend/controllers.py).                                            *)
(*                                                                         *)
(* Time is counted in whole minutes of the process's local clock           *)
(* (datetime.now()).  Every SQL statement that is committed on its own is  *)
(* one atomic step of the worker (request thread) that runs it; a worker   *)
(* keeps what it read (its cursor row, its current_time) in its frame      *)
(* between two statements, so that other workers may run in between.       *)
(***************************************************************************)
EXTENDS Integers, Sequences, FiniteSets, TLC

VARIABLES
    now,            \* local wall clock, minutes
    ticks,          \* number of clock advances so far (bounds the run)
    rl_schema,      \* shape of the rate_limits table found by RateLimiter
    utc_offset,     \* the process's time zone: local time minus UTC, minutes
    audit_sink,     \* whether the INSERT into audit_logs can fail: "ok", "flaky"
    rate_limits,    \* table rate_limits: identifier -> row
    users,          \* table users: id -> row
    user_sessions,  \* table user_sessions: session_token -> row
    audit_logs,     \* table audit_logs, in insertion order
    audit_log,      \* table audit_log (models.AuditLog), in insertion order
    call,           \* the helper call made last: function, arguments, result
    pc,             \* per worker: the statement it executes next
    frame,          \* per worker: arguments and locals of its running call
    returned,       \* the call that returned last: worker, arguments, value
    history         \* per identifier: the failed record_attempt calls finished
                    \* since its counter was last deleted or zeroed (a record
                    \* of the calls made, which no statement of the code reads)

vars == <<now, ticks, rl_schema, utc_offset, audit_sink, audit_log, call, rate_limits, users, user_sessions,
          audit_logs, pc, frame, returned, history>>

-----------------------------------------------------------------------------
(* Bounds of the model *)

MaxTicks == 1

MaxFailCalls == 6

MaxAudit == 2

MaxOtherFails == 1

\* rows of the audit_log table
MaxThreatLog == 1

MaxSessions == 1

(* SecurityConfig *)

MAX_LOGIN_ATTEMPTS == 5

LOCKOUT_DURATION_MINUTES == 15

SESSION_EXPIRY_HOURS == 8

SESSION_REMEMBER_HOURS == 168

MinutesPerHour == 60

-----------------------------------------------------------------------------
(* Values *)

Workers == {1, 2}

SeqWorkers == {1}

NULL == -1

None == [type |-> "None"]

Pending == [type |-> "pending"]

Raised(exc) == [type |-> "raise", exc |-> exc]

IsRaised(r) == "type" \in DOMAIN r /\ r.type = "raise"

IsNone(r) == "type" \in DOMAIN r /\ r.type = "None"

\* what callers claim to be: the username and the email of the active account,
\* the username of a disabled account, and a name no account has
Identifiers == {"admin", "admin@matrica.net", "guest", "nobody"}

\* the identifiers the rate limiter is called for directly
RateLimiterIds == {"admin", "guest"}

\* the identifier concurrent workers contend for
Contended == {"admin"}

\* the last one holds a character sanitize_input removes
Passwords == {"Passw0rdA", "Passw0rdB", "Passw0rd'A"}

Tokens == {"tok1", "tok2"}

UserIds == {1, 2, 3}

NullText == "NULL"

NoDetails == [none |-> TRUE]

Str(s) == [type |-> "str", value |-> s]

IntValue(n) == [type |-> "int", value |-> n]

Bool(b) == [type |-> "bool", value |-> b]

-----------------------------------------------------------------------------
(* RateLimiter: rows of rate_limits and the pure parts of its two methods *)

RateLimitRow(attempts, first_attempt, last_attempt, locked_until) ==
    [attempts |-> attempts, first_attempt |-> first_attempt,
     last_attempt |-> last_attempt, locked_until |-> locked_until]

\* SELECT * FROM rate_limits WHERE identifier = ?  ; fetchone(): {} or {row}
SelectRateLimit(identifier) ==
    IF identifier \in DOMAIN rate_limits THEN {rate_limits[identifier]} ELSE {}

\* record['locked_until'] and fromisoformat(record['locked_until']) > current_time
LockoutActive(record, current_time) ==
    record.locked_until # NULL /\ record.locked_until > current_time

LockoutExpired_Strict(record, current_time) ==
    record.locked_until # NULL /\ record.locked_until < current_time

\* record['locked_until'] and fromisoformat(record['locked_until']) <= current_time
LockoutExpired(record, current_time) ==
    record.locked_until # NULL /\ record.locked_until <= current_time

CheckResult_IgnoresLockout(rows, current_time) ==
    IF rows = {} THEN [allowed |-> TRUE, attempts |-> 0]
    ELSE [allowed |-> TRUE, attempts |-> (CHOOSE r \in rows : TRUE).attempts]

\* the dict check_rate_limit returns for the row it fetched
CheckResult(rows, current_time) ==
    IF rows = {} THEN [allowed |-> TRUE, attempts |-> 0]
    ELSE LET record == CHOOSE r \in rows : TRUE IN
         IF LockoutActive(record, current_time)
         THEN [allowed |-> FALSE, attempts |-> record.attempts,
               locked_until |-> record.locked_until,
               time_remaining_minutes |-> record.locked_until - current_time]
         ELSE IF LockoutExpired(record, current_time)
         THEN [allowed |-> TRUE, attempts |-> 0]
         ELSE [allowed |-> record.attempts < MAX_LOGIN_ATTEMPTS,
               attempts |-> record.attempts]

\* whether check_rate_limit goes on to its UPDATE ("Reset if lockout expired")
CheckResets(rows, current_time) ==
    /\ rows # {}
    /\ LET record == CHOOSE r \in rows : TRUE IN
         ~LockoutActive(record, current_time) /\ LockoutExpired(record, current_time)

\* UPDATE rate_limits SET attempts = 0, first_attempt = NULL, last_attempt = NULL,
\*        locked_until = NULL WHERE identifier = ?
ResetRow == RateLimitRow(0, NULL, NULL, NULL)

NewAttempts(record) == record.attempts + 1

LockedUntilFor_Never(new_attempts, current_time) == NULL

LockedUntilFor_Late(new_attempts, current_time) ==
    IF new_attempts > MAX_LOGIN_ATTEMPTS
    THEN current_time + LOCKOUT_DURATION_MINUTES
    ELSE NULL

LockedUntilFor_Early(new_attempts, current_time) ==
    IF new_attempts >= MAX_LOGIN_ATTEMPTS - 1
    THEN current_time + LOCKOUT_DURATION_MINUTES
    ELSE NULL

LockedUntilFor(new_attempts, current_time) ==
    IF new_attempts >= MAX_LOGIN_ATTEMPTS
    THEN current_time + LOCKOUT_DURATION_MINUTES
    ELSE NULL

\* UPDATE rate_limits SET attempts = ?, last_attempt = ?, locked_until = ? ...
UpdatedRow(old, record, current_time) ==
    [old EXCEPT !.attempts = NewAttempts(record),
                !.last_attempt = current_time,
                !.locked_until = LockedUntilFor(NewAttempts(record), current_time)]

\* INSERT INTO rate_limits (identifier, attempts, first_attempt, last_attempt)
\*        VALUES (?, 1, ?, ?)
InsertedRow(current_time) == RateLimitRow(1, current_time, current_time, NULL)

DeleteRateLimit_NotCommitted(identifier) == rate_limits

\* DELETE FROM rate_limits WHERE identifier = ?  (committed): the table after it
DeleteRateLimit(identifier) ==
    [i \in DOMAIN rate_limits \ {identifier} |-> rate_limits[i]]

\* the table RateLimiter's statements name exists with an identifier column
RateLimitTableUsable == rl_schema = "identifier"

\* n failed calls made since the counter was last forgiven, the last of them at
\* time last; lockout_forgiven: that forgiveness wiped 5 failed calls or more
NoHistory == [n |-> 0, last |-> NULL, lockout_forgiven |-> FALSE]

Forgiven(h) ==
    [n |-> 0, last |-> NULL, lockout_forgiven |-> h.n >= MAX_LOGIN_ATTEMPTS]

Failed(h, current_time) == [h EXCEPT !.n = @ + 1, !.last = current_time]

RECURSIVE SumHistory(_)
SumHistory(ids) ==
    IF ids = {} THEN 0
    ELSE LET i == CHOOSE x \in ids : TRUE IN history[i].n + SumHistory(ids \ {i})

\* failed record_attempt calls made and not yet forgiven, plus those under way
OutstandingFailCalls ==
    SumHistory(DOMAIN history)
    + Cardinality({p \in DOMAIN pc : pc[p] = "ra_write"})

\* the bound on failed attempts: a further one may be made for identifier
MayFail(identifier) ==
    /\ OutstandingFailCalls < MaxFailCalls
    /\ \A r \in SelectRateLimit(identifier) : r.attempts < MaxFailCalls

-----------------------------------------------------------------------------
(* Credentials.  A byte string is known by what it was made from; text that  *)
(* is the hexadecimal form of a byte string is another value than the bytes. *)

\* secrets.token_bytes(SALT_LENGTH): the n-th salt drawn
RawBytes(n) == [enc |-> "raw", of |-> n]

\* bytes.hex()
Hex(b) == [text |-> "hex", of |-> b]

\* bytes.fromhex(text)
FromHex(t) == t.of

\* isinstance(v, str)
IsStr(v) == "text" \in DOMAIN v

\* hashlib.pbkdf2_hmac('sha256', password.encode('utf-8'), salt, HASH_ITERATIONS)
PBKDF2(password, salt) == [password |-> password, salt |-> salt]

HashPassword_Unsalted(password, salt) == PBKDF2(password, RawBytes(0))

\* _hash_password(password, salt)[0]
HashPassword(password, salt) == PBKDF2(password, salt)

VerifyPassword_Always(password, stored_hash, salt) == TRUE

\* _verify_password: computed_hash == stored_hash
VerifyPassword(password, stored_hash, salt) ==
    HashPassword(password, salt) = stored_hash

\* the columns password_hash, salt as change_password stores them
StoredCredentials(password, salt) ==
    [password_hash |-> Hex(HashPassword(password, salt)), salt |-> Hex(salt)]

UserRow(id, username, email, credentials, role, is_active) ==
    [id |-> id, username |-> username, email |-> email,
     password_hash |-> credentials.password_hash, salt |-> credentials.salt,
     role |-> role, is_active |-> is_active]

\* the accounts of the credential store: an active administrator, a disabled
\* employee and an active one, their credentials written by AuthService
InitUsers ==
    1 :> UserRow(1, "admin", "admin@matrica.net",
                 StoredCredentials("Passw0rdA", RawBytes(1)), "admin", TRUE)
    @@
    2 :> UserRow(2, "guest", "guest@matrica.net",
                 StoredCredentials("Passw0rdB", RawBytes(2)), "employee", FALSE)
    @@
    3 :> UserRow(3, "staff", "staff@matrica.net",
                 StoredCredentials("Passw0rdB", RawBytes(3)), "employee", TRUE)

\* SELECT id, username, password_hash, salt, role, is_active FROM users
\*        WHERE username = ? OR email = ?  ; fetchone(): {} or {row}
SelectUser(username) ==
    LET m == {u \in DOMAIN users :
                 users[u].username = username \/ users[u].email = username}
    IN IF m = {} THEN {}
       ELSE {users[CHOOSE u \in m : \A v \in m : u <= v]}

\* stored_hash / salt after "if isinstance(..., str): ... bytes.fromhex(...)"
Decoded(v) == IF IsStr(v) THEN FromHex(v) ELSE v

AuthOutcome_IgnoresIsActive(user_rows, password) ==
    IF user_rows = {} THEN "user_not_found"
    ELSE LET user == CHOOSE u \in user_rows : TRUE IN
         IF ~VerifyPassword(password, Decoded(user.password_hash),
                            Decoded(user.salt))
         THEN "invalid_password"
         ELSE "success"

\* the branch authenticate_user takes on the row it fetched
AuthOutcome(user_rows, password) ==
    IF user_rows = {} THEN "user_not_found"
    ELSE LET user == CHOOSE u \in user_rows : TRUE IN
         IF ~user.is_active THEN "account_disabled"
         ELSE IF ~VerifyPassword(password, Decoded(user.password_hash),
                                 Decoded(user.salt))
         THEN "invalid_password"
         ELSE "success"

UserInfo_WithCredentials(user) ==
    [id |-> user.id, username |-> user.username, role |-> user.role,
     password_hash |-> user.password_hash, salt |-> user.salt]

\* what authenticate_user returns on success
UserInfo(user) == [id |-> user.id, username |-> user.username, role |-> user.role]

-----------------------------------------------------------------------------
(* AuditLogger *)

Event(event_type, user_id, username, client_ip, details, success) ==
    [event_type |-> event_type, user_id |-> user_id, username |-> username,
     client_ip |-> client_ip, details |-> details, success |-> success]

log_event_Overwriting(event) == audit_logs' = <<event>>

log_event_Aborting(event) == audit_logs' = Append(audit_logs, event)

\* log_event: INSERT INTO audit_logs (...) VALUES (...); commit -- or, the
\* sink failing, the exception caught and logged locally, no row written
log_event(event) ==
    \/ audit_logs' = Append(audit_logs, event)
    \/ /\ audit_sink = "flaky"
       /\ audit_logs' = audit_logs

\* the events worker p's running call may still append
PendingEvents(p) ==
    IF pc[p] = "idle" \/ frame[p].op \in {"check_rate_limit", "record_attempt"}
    THEN 0
    ELSE IF frame[p].op = "login" /\ pc[p] # "cs_insert" THEN 2 ELSE 1

RECURSIVE SumPending(_)
SumPending(ps) ==
    IF ps = {} THEN 0
    ELSE LET p == CHOOSE x \in ps : TRUE IN PendingEvents(p) + SumPending(ps \ {p})

\* the bound on the audit log: a call that appends up to k events may start
AuditRoom(k) == Len(audit_logs) + SumPending(DOMAIN pc) + k <= MaxAudit

-----------------------------------------------------------------------------
(* AuthController.login: what it does around its two calls of AuthService *)

Missing == "<missing>"

\* 'username': r'^[a-zA-Z0-9._-]{3,20}$' ; an address with @ does not match
MatchesUsernameRule(value) == value \in {"admin", "guest", "nobody"}

\* 'password': r'^.{8,128}$'
MatchesPasswordRule(value) == value \in Passwords

\* validate_input(data, {'username': 'username_required',
\*                       'password': 'password_required'}): its errors
ValidationErrors(data) ==
    [field \in {f \in {"username", "password"} :
                   \/ data[f] = Missing
                   \/ f = "username" /\ ~MatchesUsernameRule(data[f])
                   \/ f = "password" /\ ~MatchesPasswordRule(data[f])}
       |-> IF data[field] = Missing THEN "is required" ELSE "Invalid format"]

\* sanitize_input on one string: re.sub(r'[<>"\'\\\x00-\x1f\x7f-\x9f]', '', value)
Sanitize(value) == IF value = "Passw0rd'A" THEN "Passw0rdA" ELSE value

LoginError(message) == [success |-> FALSE, error |-> message]

LoginSuccess(user, session_token) ==
    [success |-> TRUE, user |-> user, session_token |-> session_token]

-----------------------------------------------------------------------------
(* Workers: one request thread each.  A frame holds the running call. *)

IdleFrame ==
    [op |-> "none", identifier |-> "", password |-> "", success |-> FALSE,
     current_time |-> NULL, rows |-> {}, user |-> {}, reason |-> "",
     user_id |-> NULL, remember |-> FALSE, session_token |-> "",
     new_password |-> "", auth |-> Pending, route |-> ""]

\* worker p's outermost call returns ret (or raises it) to its caller
Return(p, f, ret) ==
    /\ pc' = [pc EXCEPT ![p] = "idle"]
    /\ frame' = [frame EXCEPT ![p] = IdleFrame]
    /\ returned' = [worker |-> p, op |-> f.op, identifier |-> f.identifier,
                    password |-> f.password, success |-> f.success,
                    user_id |-> f.user_id, remember |-> f.remember,
                    session_token |-> f.session_token,
                    at |-> IF f.op \in {"create_session",
                                        "cleanup_expired_sessions"}
                           THEN now ELSE NULL,
                    auth |-> f.auth, route |-> f.route, ret |-> ret]

\* worker p goes on to statement next of its call, with locals f
Goto(p, next, f) ==
    /\ pc' = [pc EXCEPT ![p] = next]
    /\ frame' = [frame EXCEPT ![p] = f]
    /\ UNCHANGED returned

\* the address requests come from
ClientIp == "10.0.0.1"

ReturnFromCreate_ReportsSuccess(p, f, value) ==
    IF f.op = "create_session" THEN Return(p, f, value)
    ELSE Return(p, f, LoginSuccess(f.auth, IF IsNone(value) THEN NullText
                                           ELSE value.value))

\* create_session returns value to whoever called it: its caller, or login
\* ("if not session_token" ... the success dict)
ReturnFromCreate(p, f, value) ==
    IF f.op = "create_session" THEN Return(p, f, value)
    ELSE IF IsNone(value)
         THEN Return(p, f, LoginError("Failed to create session"))
         ELSE Return(p, f, LoginSuccess(f.auth, value.value))

\* authenticate_user returns value to whoever called it: its caller, or login
\* ("if not user" ... create_session)
ReturnFromAuthenticate(p, f, value) ==
    IF f.op = "authenticate_user" THEN Return(p, [f EXCEPT !.auth = value], value)
    ELSE IF IsNone(value)
         THEN Return(p, [f EXCEPT !.auth = value],
                     LoginError("Invalid credentials"))
         ELSE Goto(p, "cs_insert", [f EXCEPT !.auth = value, !.user_id = value.id])

\* check_rate_limit returns result to whoever called it, or raises: out of
\* authenticate_user too, which calls it before its try, and into login's except
ReturnFromCheck(p, f, result) ==
    IF f.op = "check_rate_limit"
    THEN Return(p, f, result) /\ UNCHANGED audit_logs
    ELSE IF IsRaised(result)
    THEN /\ UNCHANGED audit_logs
         /\ IF f.op = "authenticate_user" THEN Return(p, f, result)
            ELSE Return(p, f, LoginError("Login failed"))
    ELSE IF ~result.allowed
    THEN /\ log_event(Event("login_blocked", NULL, f.identifier, ClientIp,
                            [reason |-> "rate_limited"], FALSE))
         /\ ReturnFromAuthenticate(p, f, None)
    ELSE /\ UNCHANGED audit_logs
         /\ Goto(p, "auth_select_user", f)

\* record_attempt returns (None) or raises to whoever called it: in
\* authenticate_user the audit event and the return follow, or the except
ReturnFromRecord(p, f, result) ==
    IF f.op = "record_attempt"
    THEN Return(p, f, result) /\ UNCHANGED audit_logs
    ELSE LET user_id == IF f.user = {} THEN NULL
                        ELSE (CHOOSE u \in f.user : TRUE).id
         IN
         IF IsRaised(result)
         THEN /\ log_event(Event("login_error", NULL, f.identifier, ClientIp,
                                 [error |-> result.exc], FALSE))
              /\ ReturnFromAuthenticate(p, f, None)
         ELSE IF f.reason = "success"
         THEN /\ log_event(Event("login_success", user_id, f.identifier,
                                 ClientIp, NoDetails, TRUE))
              /\ ReturnFromAuthenticate(p, f,
                                        UserInfo(CHOOSE u \in f.user : TRUE))
         ELSE /\ log_event(Event("login_failed", user_id, f.identifier,
                                 ClientIp, [reason |-> f.reason], FALSE))
              /\ ReturnFromAuthenticate(p, f, None)

-----------------------------------------------------------------------------
(* RateLimiter.check_rate_limit *)

\* SELECT the row, read the clock, and answer unless the lockout has expired
CrlSelect(p, f) ==
    /\ UNCHANGED <<now, ticks, rl_schema, utc_offset, audit_sink, audit_log, call, rate_limits, users, user_sessions,
                   history>>
    /\ IF ~RateLimitTableUsable
       THEN ReturnFromCheck(p, f, Raised("OperationalError"))
       ELSE LET rows == SelectRateLimit(f.identifier) IN
            IF CheckResets(rows, now)
            THEN /\ UNCHANGED audit_logs
                 /\ Goto(p, "crl_reset",
                         [f EXCEPT !.current_time = now, !.rows = rows])
            ELSE ReturnFromCheck(p, f, CheckResult(rows, now))

\* UPDATE ... SET attempts = 0, ... locked_until = NULL; commit; return
crl_reset(p) ==
    /\ pc[p] = "crl_reset"
    /\ LET f == frame[p] IN
       /\ rate_limits' = IF f.identifier \in DOMAIN rate_limits
                         THEN [rate_limits EXCEPT ![f.identifier] = ResetRow]
                         ELSE rate_limits
       /\ history' = [history EXCEPT ![f.identifier] = Forgiven(@)]
       /\ ReturnFromCheck(p, f, CheckResult(f.rows, f.current_time))
    /\ UNCHANGED <<now, ticks, rl_schema, utc_offset, audit_sink, audit_log, call, users, user_sessions>>

check_rate_limit(p, identifier) ==
    /\ pc[p] = "idle"
    /\ CrlSelect(p, [IdleFrame EXCEPT !.op = "check_rate_limit",
                                      !.identifier = identifier])

-----------------------------------------------------------------------------
(* RateLimiter.record_attempt *)

\* success: DELETE FROM rate_limits WHERE identifier = ?; commit
RaDelete(p, f) ==
    /\ UNCHANGED <<now, ticks, rl_schema, utc_offset, audit_sink, audit_log, call, users, user_sessions>>
    /\ IF ~RateLimitTableUsable
       THEN /\ UNCHANGED <<rate_limits, history>>
            /\ ReturnFromRecord(p, f, Raised("OperationalError"))
       ELSE /\ rate_limits' = DeleteRateLimit(f.identifier)
            /\ history' = [history EXCEPT ![f.identifier] = Forgiven(@)]
            /\ ReturnFromRecord(p, f, None)

\* failure: SELECT * FROM rate_limits WHERE identifier = ?; fetchone()
RaSelect(p, f) ==
    /\ UNCHANGED <<now, ticks, rl_schema, utc_offset, audit_sink, audit_log, call, users, user_sessions, rate_limits>>
    /\ IF ~RateLimitTableUsable
       THEN /\ history' = [history EXCEPT ![f.identifier] = Failed(@, now)]
            /\ ReturnFromRecord(p, f, Raised("OperationalError"))
       ELSE /\ UNCHANGED <<history, audit_logs>>
            /\ Goto(p, "ra_write",
                    [f EXCEPT !.current_time = now,
                              !.rows = SelectRateLimit(f.identifier)])

\* failure: UPDATE the fetched row, or INSERT when none was fetched; commit
ra_write(p) ==
    /\ pc[p] = "ra_write"
    /\ UNCHANGED <<now, ticks, rl_schema, utc_offset, audit_sink, audit_log, call, users, user_sessions>>
    /\ LET f == frame[p]
           id == f.identifier
       IN
       /\ history' = [history EXCEPT ![id] = Failed(@, f.current_time)]
       /\ IF f.rows # {}
          THEN LET record == CHOOSE r \in f.rows : TRUE IN
               /\ rate_limits' =
                     IF id \in DOMAIN rate_limits
                     THEN [rate_limits EXCEPT ![id] =
                              UpdatedRow(@, record, f.current_time)]
                     ELSE rate_limits
               /\ ReturnFromRecord(p, f, None)
          ELSE IF id \in DOMAIN rate_limits
               THEN \* UNIQUE constraint failed: rate_limits.identifier
                    /\ UNCHANGED rate_limits
                    /\ ReturnFromRecord(p, f, Raised("IntegrityError"))
               ELSE /\ rate_limits' =
                          [i \in DOMAIN rate_limits \cup {id} |->
                              IF i = id THEN InsertedRow(f.current_time)
                                        ELSE rate_limits[i]]
                    /\ ReturnFromRecord(p, f, None)

record_attempt(p, identifier, success) ==
    /\ pc[p] = "idle"
    /\ LET f == [IdleFrame EXCEPT !.op = "record_attempt",
                                  !.identifier = identifier,
                                  !.success = success]
       IN IF success
          THEN RaDelete(p, f)
          ELSE /\ MayFail(identifier)
               /\ RaSelect(p, f)

-----------------------------------------------------------------------------
(* AuthService.authenticate_user *)

\* the bound on failed logins: a call that the accounts as they are now would
\* make fail starts only while there is room for its failure; the failures of
\* the contended identifier are bounded by MayFail, those of all the others
\* together by MaxOtherFails
MayFailLogin(identifier, password) ==
    \/ AuthOutcome(SelectUser(identifier), password) = "success"
    \/ /\ MayFail(identifier)
       /\ identifier \in Contended
             \/ SumHistory(DOMAIN history \ Contended) < MaxOtherFails

\* enters with check_rate_limit(username), called before the try
AuthenticateCall(p, f) ==
    /\ MayFailLogin(f.identifier, f.password)
    /\ CrlSelect(p, f)

authenticate_user(p, username, password) ==
    /\ pc[p] = "idle"
    /\ AuditRoom(1)
    /\ AuthenticateCall(p, [IdleFrame EXCEPT !.op = "authenticate_user",
                                             !.identifier = username,
                                             !.password = password])

\* SELECT ... FROM users WHERE username = ? OR email = ?; fetchone(); the
\* is_active test and _verify_password on what was fetched
auth_select_user(p) ==
    /\ pc[p] = "auth_select_user"
    /\ LET f == frame[p]
           rows == SelectUser(f.identifier)
           outcome == AuthOutcome(rows, f.password)
       IN Goto(p, IF outcome = "success" THEN "ra_delete" ELSE "ra_select",
               [f EXCEPT !.user = rows, !.reason = outcome])
    /\ UNCHANGED <<now, ticks, rl_schema, utc_offset, audit_sink, audit_log, call, rate_limits, users, user_sessions,
                   audit_logs, history>>

\* record_attempt(username, success=True), login_success, return
ra_delete(p) ==
    /\ pc[p] = "ra_delete"
    /\ RaDelete(p, frame[p])

\* record_attempt(username, success=False): its SELECT
ra_select(p) ==
    /\ pc[p] = "ra_select"
    /\ RaSelect(p, frame[p])

-----------------------------------------------------------------------------
(* AuthService.create_session *)

SessionRow(user_id, expires_at, created_at, client_ip) ==
    [user_id |-> user_id, expires_at |-> expires_at, created_at |-> created_at,
     client_ip |-> client_ip, is_active |-> TRUE]

ExpiresAt_AlwaysDefault(current_time, remember) ==
    current_time + SESSION_EXPIRY_HOURS * MinutesPerHour

\* datetime.now() + timedelta(hours=expires_hours)
ExpiresAt(current_time, remember) ==
    current_time
    + (IF remember THEN SESSION_REMEMBER_HOURS ELSE SESSION_EXPIRY_HOURS)
      * MinutesPerHour

\* created_at TIMESTAMP DEFAULT CURRENT_TIMESTAMP: SQLite's clock, in UTC
CURRENT_TIMESTAMP == now - utc_offset

InsertSession_Replacing(session_token, row) ==
    [t \in DOMAIN user_sessions \cup {session_token} |->
        IF t = session_token THEN row ELSE user_sessions[t]]

\* INSERT INTO user_sessions (...) VALUES (...) on the table whose column
\* session_token is declared TEXT UNIQUE NOT NULL: the table with the new
\* row, or the error of the constraint
InsertSession(session_token, row) ==
    IF session_token \in DOMAIN user_sessions
    THEN Raised("IntegrityError")
    ELSE [t \in DOMAIN user_sessions \cup {session_token} |->
             IF t = session_token THEN row ELSE user_sessions[t]]

\* draw the token; INSERT INTO user_sessions ...; commit; session_created;
\* return the token.  A token the table holds already: UNIQUE constraint
\* failed, caught, return None
CsInsert(p, f) ==
    /\ UNCHANGED <<now, ticks, rl_schema, utc_offset, audit_sink, audit_log, call, rate_limits, users, history>>
    /\ \E session_token \in Tokens :
         LET result == InsertSession(session_token,
                                     SessionRow(f.user_id,
                                                ExpiresAt(now, f.remember),
                                                CURRENT_TIMESTAMP, ClientIp))
         IN
         IF IsRaised(result)
         THEN /\ UNCHANGED <<user_sessions, audit_logs>>
              /\ ReturnFromCreate(p, f, None)
         ELSE /\ user_sessions' = result
              /\ log_event(Event("session_created", f.user_id, NullText,
                                 ClientIp, [remember |-> f.remember], TRUE))
              /\ ReturnFromCreate(p, [f EXCEPT !.session_token = session_token],
                                  Str(session_token))

create_session(p, user_id, remember) ==
    /\ pc[p] = "idle"
    /\ AuditRoom(1)
    /\ CsInsert(p, [IdleFrame EXCEPT !.op = "create_session",
                                     !.user_id = user_id,
                                     !.remember = remember])

\* login's call of create_session(user['id'], ..., data.get('remember', False))
cs_insert(p) ==
    /\ pc[p] = "cs_insert"
    /\ CsInsert(p, frame[p])

-----------------------------------------------------------------------------
(* AuthService.validate_session *)

\* SELECT s.*, u.username, u.role, u.is_active FROM user_sessions s
\*        JOIN users u ON s.user_id = u.id
\*        WHERE s.session_token = ? AND s.is_active = 1  ; fetchone()
\* Two columns of the row are named is_active: s.is_active comes first
SelectSession(session_token) ==
    IF /\ session_token \in DOMAIN user_sessions
       /\ user_sessions[session_token].is_active
       /\ user_sessions[session_token].user_id \in DOMAIN users
    THEN LET s == user_sessions[session_token]
             u == users[s.user_id]
         IN {[user_id |-> s.user_id, expires_at |-> s.expires_at,
              created_at |-> s.created_at, is_active |-> s.is_active,
              username |-> u.username, role |-> u.role,
              u_is_active |-> u.is_active]}
    ELSE {}

\* session['is_active']: sqlite3.Row gives the first column of that name
SessionIsActive(session) == session.is_active

SessionExpired_Inclusive(session, current_time) ==
    session.expires_at <= current_time

\* expires_at < datetime.now()
SessionExpired(session, current_time) == session.expires_at < current_time

SessionInfo_OfFirstUser(session) ==
    [id |-> 1, username |-> session.username, role |-> session.role,
     session_created |-> session.created_at,
     session_expires |-> session.expires_at]

\* the dict validate_session returns
SessionInfo(session) ==
    [id |-> session.user_id, username |-> session.username,
     role |-> session.role, session_created |-> session.created_at,
     session_expires |-> session.expires_at]

DeactivateSession_Deleting(session_token) ==
    [t \in DOMAIN user_sessions \ {session_token} |-> user_sessions[t]]

\* UPDATE user_sessions SET is_active = 0 WHERE session_token = ?: the table
\* after it
DeactivateSession(session_token) ==
    IF session_token \in DOMAIN user_sessions
    THEN [user_sessions EXCEPT ![session_token].is_active = FALSE]
    ELSE user_sessions

\* MatricaWSGIApp._json_response / _error_response: the status and the JSON data
ApiResponse(status, data) == [status |-> status, data |-> data]

\* validate_session returns value to whoever called it: its caller, or
\* AuthMiddleware.process_request on behalf of _handle_api ("if not user" ...
\* the 401 tuple, which _handle_api turns into the error response; otherwise
\* the session context, with which _handle_api goes on to call the handler)
ReturnFromValidate(p, f, value) ==
    IF f.op = "validate_session" THEN Return(p, f, value)
    ELSE IF IsNone(value)
         THEN Return(p, f, ApiResponse(401, [error |-> "Invalid or expired session"]))
         ELSE Goto(p, "call_handler", [f EXCEPT !.auth = value])

VsSelect(p, f) ==
    /\ UNCHANGED <<now, ticks, rl_schema, utc_offset, audit_sink, audit_log, call, rate_limits, users, user_sessions,
                   audit_logs, history>>
    /\ IF f.session_token = "" THEN ReturnFromValidate(p, f, None)
       ELSE LET rows == SelectSession(f.session_token) IN
            IF rows = {} THEN ReturnFromValidate(p, f, None)
            ELSE LET session == CHOOSE r \in rows : TRUE IN
                 IF SessionExpired(session, now)
                 THEN Goto(p, "vs_deactivate", [f EXCEPT !.rows = rows])
                 ELSE IF ~SessionIsActive(session) THEN ReturnFromValidate(p, f, None)
                 ELSE ReturnFromValidate(p, f, SessionInfo(session))

\* UPDATE user_sessions SET is_active = 0 WHERE session_token = ?; commit;
\* session_expired; return None
vs_deactivate(p) ==
    /\ pc[p] = "vs_deactivate"
    /\ LET f == frame[p]
           session == CHOOSE r \in f.rows : TRUE
       IN
       /\ user_sessions' = DeactivateSession(f.session_token)
       /\ log_event(Event("session_expired", session.user_id, NullText,
                          NullText, [session_token |-> f.session_token], FALSE))
       /\ ReturnFromValidate(p, f, None)
    /\ UNCHANGED <<now, ticks, rl_schema, utc_offset, audit_sink, audit_log, call, rate_limits, users, history>>

validate_session(p, session_token) ==
    /\ pc[p] = "idle"
    /\ AuditRoom(1)
    /\ VsSelect(p, [IdleFrame EXCEPT !.op = "validate_session",
                                     !.session_token = session_token])

-----------------------------------------------------------------------------
(* AuthService.logout_session *)

SelectActiveSession_AnyState(session_token) ==
    IF session_token \in DOMAIN user_sessions
    THEN {[user_id |-> user_sessions[session_token].user_id]}
    ELSE {}

\* SELECT user_id FROM user_sessions WHERE session_token = ? AND is_active = 1
\* ; fetchone()
SelectActiveSession(session_token) ==
    IF /\ session_token \in DOMAIN user_sessions
       /\ user_sessions[session_token].is_active
    THEN {[user_id |-> user_sessions[session_token].user_id]}
    ELSE {}

\* AuthController.logout's answer, whatever logout_session returned
LogoutSuccess == [success |-> TRUE, message |-> "Logged out successfully"]

\* logout_session returns value to whoever called it: its caller, or the
\* logout handler, which drops it
ReturnFromLogout(p, f, value) ==
    IF f.op = "logout_session" THEN Return(p, f, value)
    ELSE Return(p, f, ApiResponse(200, LogoutSuccess))

LsSelect(p, f) ==
    /\ UNCHANGED <<now, ticks, rl_schema, utc_offset, audit_sink, audit_log, call, rate_limits, users, user_sessions,
                   audit_logs, history>>
    /\ IF f.session_token = "" THEN ReturnFromLogout(p, f, Bool(FALSE))
       ELSE LET rows == SelectActiveSession(f.session_token) IN
            IF rows = {} THEN ReturnFromLogout(p, f, Bool(FALSE))
            ELSE Goto(p, "ls_update", [f EXCEPT !.rows = rows])

\* UPDATE user_sessions SET is_active = 0 WHERE session_token = ?; commit;
\* logout event; return True
ls_update(p) ==
    /\ pc[p] = "ls_update"
    /\ LET f == frame[p]
           session == CHOOSE r \in f.rows : TRUE
       IN
       /\ user_sessions' = DeactivateSession(f.session_token)
       /\ log_event(Event("logout", session.user_id, NullText, NullText,
                          [session_token |-> f.session_token], TRUE))
       /\ ReturnFromLogout(p, f, Bool(TRUE))
    /\ UNCHANGED <<now, ticks, rl_schema, utc_offset, audit_sink, audit_log, call, rate_limits, users, history>>

logout_session(p, session_token) ==
    /\ pc[p] = "idle"
    /\ AuditRoom(1)
    /\ LsSelect(p, [IdleFrame EXCEPT !.op = "logout_session",
                                     !.session_token = session_token])

-----------------------------------------------------------------------------
(* AuthService.cleanup_expired_sessions *)

\* datetime.isoformat(): the text 'YYYY-MM-DDTHH:MM:SS[.ffffff]' of an instant.
\* The column expires_at holds this text; the model's rows keep the instant.
IsoFormat(t) == [text |-> "iso", of |-> t]

\* SQLite's comparison of two such texts, byte by byte.  The fields have fixed
\* widths and the fraction is left out only when it is zero, so the text of
\* the earlier instant is the smaller one.
TextLess(a, b) == a.of < b.of

CleanupExpired_Inclusive(current_time) ==
    [t \in DOMAIN user_sessions |->
        IF /\ ~TextLess(current_time, IsoFormat(user_sessions[t].expires_at))
           /\ user_sessions[t].is_active
        THEN [user_sessions[t] EXCEPT !.is_active = FALSE]
        ELSE user_sessions[t]]

\* UPDATE user_sessions SET is_active = 0
\*        WHERE expires_at < ? AND is_active = 1
CleanupExpired(current_time) ==
    [t \in DOMAIN user_sessions |->
        IF /\ TextLess(IsoFormat(user_sessions[t].expires_at), current_time)
           /\ user_sessions[t].is_active
        THEN [user_sessions[t] EXCEPT !.is_active = FALSE]
        ELSE user_sessions[t]]

\* current_time = datetime.now().isoformat(); the UPDATE; commit.  The method
\* returns nothing and writes no audit event.
cleanup_expired_sessions(p) ==
    /\ pc[p] = "idle"
    /\ user_sessions' = CleanupExpired(IsoFormat(now))
    /\ Return(p, [IdleFrame EXCEPT !.op = "cleanup_expired_sessions"], None)
    /\ UNCHANGED <<now, ticks, rl_schema, utc_offset, audit_sink, audit_log, call, rate_limits, users, audit_logs,
                   history>>

-----------------------------------------------------------------------------
(* PasswordPolicy and AuthService.change_password *)

\* the new passwords callers ask for: one the policy accepts, one it rejects
NewPasswords == {"Passw0rdB", "short"}

\* passwords of 128 and of 129 characters
Password128 ==
    "Aa1xxxxxxxxxxxxxxxxxxxxxxxxxxxxxxxxxxxxxxxxxxxxxxxxxxxxxxxxxxxxxxxxxxxxxxxxxxxxxxxxxxxxxxxxxxxxxxxxxxxxxxxxxxxxxxxxxxxxxxxxxxxxx"

Password129 ==
    "Aa1xxxxxxxxxxxxxxxxxxxxxxxxxxxxxxxxxxxxxxxxxxxxxxxxxxxxxxxxxxxxxxxxxxxxxxxxxxxxxxxxxxxxxxxxxxxxxxxxxxxxxxxxxxxxxxxxxxxxxxxxxxxxxx"

\* new passwords that probe each rule of the policy
PolicyProbes ==
    {"Passw0rdB", "short", "Password", "passw0rdb", "PASSW0RDB",
     Password128, Password129}

\* the salts secrets.token_bytes draws for a new password
Salts == {RawBytes(4), RawBytes(5)}

\* what the policy's tests see of a password: len(password), any(c.isupper()),
\* any(c.islower()), any(c.isdigit()), password.lower()
PasswordChars(password) ==
    CASE password = "short" ->
            [len |-> 5, upper |-> FALSE, lower |-> TRUE, digit |-> FALSE,
             lowered |-> "short"]
      [] password = "Password" ->
            [len |-> 8, upper |-> TRUE, lower |-> TRUE, digit |-> FALSE,
             lowered |-> "password"]
      [] password = "passw0rdb" ->
            [len |-> 9, upper |-> FALSE, lower |-> TRUE, digit |-> TRUE,
             lowered |-> "passw0rdb"]
      [] password = "PASSW0RDB" ->
            [len |-> 9, upper |-> TRUE, lower |-> FALSE, digit |-> TRUE,
             lowered |-> "passw0rdb"]
      [] password = Password128 ->
            [len |-> 128, upper |-> TRUE, lower |-> TRUE, digit |-> TRUE,
             lowered |-> "aa1x...x"]
      [] password = Password129 ->
            [len |-> 129, upper |-> TRUE, lower |-> TRUE, digit |-> TRUE,
             lowered |-> "aa1x...xx"]
      [] password = "Passw0rdA" ->
            [len |-> 9, upper |-> TRUE, lower |-> TRUE, digit |-> TRUE,
             lowered |-> "passw0rda"]
      [] OTHER ->
            [len |-> 9, upper |-> TRUE, lower |-> TRUE, digit |-> TRUE,
             lowered |-> "passw0rdb"]

\* common_passwords
CommonPasswords == {"password", "123456", "qwerty", "admin", "letmein"}

PolicyErrors_NoDigitRule(password) ==
    LET c == PasswordChars(password) IN
    (IF c.len < 8
     THEN <<"Password must be at least 8 characters long">> ELSE << >>)
    \o (IF c.len > 128
        THEN <<"Password must be less than 128 characters">> ELSE << >>)
    \o (IF ~c.upper
        THEN <<"Password must contain at least one uppercase letter">> ELSE << >>)
    \o (IF ~c.lower
        THEN <<"Password must contain at least one lowercase letter">> ELSE << >>)
    \o (IF c.lowered \in CommonPasswords
        THEN <<"Password is too common">> ELSE << >>)

\* PasswordPolicy.validate_password(password)['errors']
PolicyErrors(password) ==
    LET c == PasswordChars(password) IN
    (IF c.len < 8
     THEN <<"Password must be at least 8 characters long">> ELSE << >>)
    \o (IF c.len > 128
        THEN <<"Password must be less than 128 characters">> ELSE << >>)
    \o (IF ~c.upper
        THEN <<"Password must contain at least one uppercase letter">> ELSE << >>)
    \o (IF ~c.lower
        THEN <<"Password must contain at least one lowercase letter">> ELSE << >>)
    \o (IF ~c.digit
        THEN <<"Password must contain at least one number">> ELSE << >>)
    \o (IF c.lowered \in CommonPasswords
        THEN <<"Password is too common">> ELSE << >>)

\* SELECT username, password_hash, salt FROM users WHERE id = ? ; fetchone()
SelectUserById(user_id) ==
    IF user_id \in DOMAIN users THEN {users[user_id]} ELSE {}

UpdatePassword_KeepsSalt(user_id, new_password, new_salt) ==
    LET c == StoredCredentials(new_password, new_salt) IN
    [users EXCEPT ![user_id].password_hash = c.password_hash]

\* UPDATE users SET password_hash = ?, salt = ?, password_changed_at = ...
\*        WHERE id = ?   with (new_hash.hex(), new_salt.hex(), user_id)
UpdatePassword(user_id, new_password, new_salt) ==
    LET c == StoredCredentials(new_password, new_salt) IN
    [users EXCEPT ![user_id].password_hash = c.password_hash,
                  ![user_id].salt = c.salt]

InvalidateAll_Toggling(user_id) ==
    [t \in DOMAIN user_sessions |->
        IF user_sessions[t].user_id = user_id
        THEN [user_sessions[t] EXCEPT !.is_active = ~@]
        ELSE user_sessions[t]]

InvalidateAll_Everyone(user_id) ==
    [t \in DOMAIN user_sessions |-> [user_sessions[t] EXCEPT !.is_active = FALSE]]

\* UPDATE user_sessions SET is_active = 0 WHERE user_id = ?
InvalidateAll(user_id) ==
    [t \in DOMAIN user_sessions |->
        IF user_sessions[t].user_id = user_id
        THEN [user_sessions[t] EXCEPT !.is_active = FALSE]
        ELSE user_sessions[t]]

CpFailure(error) == [success |-> FALSE, error |-> error]

CpSuccess == [success |-> TRUE]

CpSelect(p, f) ==
    /\ UNCHANGED <<now, ticks, rl_schema, utc_offset, audit_sink, audit_log, call, rate_limits, users, user_sessions,
                   history>>
    /\ IF PolicyErrors(f.new_password) # << >>
       THEN /\ UNCHANGED audit_logs
            /\ Return(p, f, [success |-> FALSE, error |-> "invalid_password",
                             details |-> PolicyErrors(f.new_password)])
       ELSE LET rows == SelectUserById(f.user_id) IN
            IF rows = {}
            THEN /\ UNCHANGED audit_logs
                 /\ Return(p, f, CpFailure("user_not_found"))
            ELSE LET user == CHOOSE u \in rows : TRUE IN
                 IF ~VerifyPassword(f.password, Decoded(user.password_hash),
                                    Decoded(user.salt))
                 THEN /\ log_event(Event("password_change_failed", f.user_id,
                                         user.username, NullText,
                                         [reason |-> "invalid_current_password"],
                                         FALSE))
                      /\ Return(p, f, CpFailure("invalid_current_password"))
                 ELSE /\ UNCHANGED audit_logs
                      /\ Goto(p, "cp_update_user", [f EXCEPT !.rows = rows])

\* new_hash, new_salt = _hash_password(new_password); UPDATE users ...; commit
cp_update_user(p) ==
    /\ pc[p] = "cp_update_user"
    /\ \E new_salt \in Salts :
          users' = UpdatePassword(frame[p].user_id, frame[p].new_password, new_salt)
    /\ Goto(p, "cp_invalidate", frame[p])
    /\ UNCHANGED <<now, ticks, rl_schema, utc_offset, audit_sink, audit_log, call, rate_limits, user_sessions,
                   audit_logs, history>>

\* UPDATE user_sessions ...; commit; password_changed; return {'success': True}
cp_invalidate(p) ==
    /\ pc[p] = "cp_invalidate"
    /\ LET f == frame[p]
           user == CHOOSE u \in f.rows : TRUE
       IN
       /\ user_sessions' = InvalidateAll(f.user_id)
       /\ log_event(Event("password_changed", f.user_id, user.username,
                          NullText, NoDetails, TRUE))
       /\ Return(p, f, CpSuccess)
    /\ UNCHANGED <<now, ticks, rl_schema, utc_offset, audit_sink, audit_log, call, rate_limits, users, history>>

change_password(p, user_id, current_password, new_password) ==
    /\ pc[p] = "idle"
    /\ AuditRoom(1)
    /\ CpSelect(p, [IdleFrame EXCEPT !.op = "change_password",
                                     !.user_id = user_id,
                                     !.password = current_password,
                                     !.new_password = new_password])

-----------------------------------------------------------------------------
(* models.User.delete: the soft delete of an account by the employee routes *)

\* UPDATE users SET is_active = 0, updated_at = ? WHERE id = ?  ; rows affected
User_delete(p, user_id) ==
    /\ pc[p] = "idle"
    /\ users' = IF user_id \in DOMAIN users
                THEN [users EXCEPT ![user_id].is_active = FALSE]
                ELSE users
    /\ Return(p, [IdleFrame EXCEPT !.op = "User_delete", !.user_id = user_id],
              IntValue(IF user_id \in DOMAIN users THEN 1 ELSE 0))
    /\ UNCHANGED <<now, ticks, rl_schema, utc_offset, audit_sink, audit_log, call, rate_limits, user_sessions,
                   audit_logs, history>>

-----------------------------------------------------------------------------
(* AuthController.login *)

login(p, data) ==
    /\ pc[p] = "idle"
    /\ LET f == [IdleFrame EXCEPT !.op = "login",
                                  !.identifier = Sanitize(data.username),
                                  !.password = Sanitize(data.password),
                                  !.remember = data.remember]
       IN IF DOMAIN ValidationErrors(data) # {}
          THEN /\ Return(p, f, [success |-> FALSE,
                                errors |-> ValidationErrors(data)])
               /\ UNCHANGED <<now, ticks, rl_schema, utc_offset, audit_sink, audit_log, call, rate_limits, users,
                              user_sessions, audit_logs, history>>
          ELSE /\ AuditRoom(2)
               /\ AuthenticateCall(p, f)

\* the request bodies: every field a string, or not there
LoginBodies ==
    [username : Identifiers \cup {Missing},
     password : Passwords \cup {Missing},
     remember : BOOLEAN]

-----------------------------------------------------------------------------
(* Retention of the audit log is left to an external process: it removes  *)
(* the events it has archived.                                            *)

Prune ==
    /\ audit_logs # << >>
    /\ \A p \in DOMAIN pc : pc[p] = "idle"
    /\ audit_logs' = << >>
    /\ UNCHANGED <<now, ticks, rl_schema, utc_offset, audit_sink, audit_log, call, rate_limits, users, user_sessions,
                   pc, frame, returned, history>>

-----------------------------------------------------------------------------
(* The clock *)

Deadlines ==
    ({rate_limits[i].locked_until : i \in DOMAIN rate_limits} \ {NULL})
    \cup {user_sessions[t].expires_at : t \in DOMAIN user_sessions}

\* the clock moves on by a minute, or to the minute before a deadline, or to it
TickTargets ==
    {t \in {now + 1} \cup {d - k : d \in Deadlines, k \in {0, 1}} : t > now}

Tick ==
    /\ ticks < MaxTicks
    /\ now' \in TickTargets
    /\ ticks' = ticks + 1
    /\ UNCHANGED <<rl_schema, utc_offset, audit_sink, audit_log, call, rate_limits, users, user_sessions, audit_logs,
                   pc, frame, returned, history>>

-----------------------------------------------------------------------------
(* Specifications *)

\* no helper was called yet
NoCall == [fn |-> "none", args |-> << >>, result |-> Pending, scans |-> << >>]

\* the state before the first request: the rate_limits table of shape schema,
\* the users table holding accounts
InitOf(zone, sink, schema, accounts) ==
    /\ now = 0
    /\ ticks = 0
    /\ utc_offset = zone
    /\ audit_sink = sink
    /\ rl_schema = schema
    /\ rate_limits = << >>
    /\ users = accounts
    /\ user_sessions = << >>
    /\ audit_logs = << >>
    /\ audit_log = << >>
    /\ call = NoCall
    /\ pc = [p \in Workers |-> "idle"]
    /\ frame = [p \in Workers |-> IdleFrame]
    /\ returned = [worker |-> 0, op |-> "none", identifier |-> "",
                   password |-> "", success |-> FALSE, user_id |-> NULL,
                   remember |-> FALSE, session_token |-> "", at |-> NULL,
                   auth |-> Pending, route |-> "", ret |-> Pending]
    /\ history = [i \in Identifiers |-> NoHistory]

\* AuthService(db_path) constructed on a database that has no rate_limits
\* table yet: _init_rate_limit_table creates it, empty; the accounts'
\* credentials are in the form change_password writes
InitWith(zone, sink) == InitOf(zone, sink, "identifier", InitUsers)

\* the process runs in time zone zone, the audit table accepting every write
InitIn(zone) == InitWith(zone, "ok")

\* the process runs with its local time set to UTC
Init == InitIn(0)

\* the same, any write to the audit table liable to fail
InitFlaky == InitWith(0, "flaky")

\* the time zones a host may be set to: Honolulu, UTC, Kolkata
UtcOffsets == {-600, 0, 330}

\* the process runs in any of these zones
InitZones == \E zone \in UtcOffsets : InitIn(zone)

RateLimiterStep(p, ids) ==
    \/ \E i \in ids : check_rate_limit(p, i)
    \/ crl_reset(p)
    \/ \E i \in ids, success \in BOOLEAN : record_attempt(p, i, success)
    \/ ra_write(p)

\* the rate limiter called by one worker: calls follow one another
NextRateLimiterSeq ==
    Tick \/ \E p \in SeqWorkers : RateLimiterStep(p, RateLimiterIds)

SpecRateLimiterSeq == Init /\ [][NextRateLimiterSeq]_vars

\* the rate limiter called by concurrent workers for one and the same identifier
NextRateLimiter == Tick \/ \E p \in Workers : RateLimiterStep(p, Contended)

SpecRateLimiter == Init /\ [][NextRateLimiter]_vars

AuthenticateStep(p) ==
    \/ crl_reset(p)
    \/ auth_select_user(p)
    \/ ra_delete(p)
    \/ ra_select(p)
    \/ ra_write(p)

\* one caller after another calls authenticate_user
NextAuthenticateSeq ==
    \/ Tick
    \/ Prune
    \/ \E p \in SeqWorkers :
          \/ \E i \in Identifiers, pw \in Passwords : authenticate_user(p, i, pw)
          \/ AuthenticateStep(p)

SpecAuthenticateSeq == Init /\ [][NextAuthenticateSeq]_vars

\* the bound on sessions: a login starts while the table has room for its session
SessionRoom == Cardinality(DOMAIN user_sessions) < MaxSessions

\* one client after another posts to /api/auth/login
NextLoginSeq ==
    \/ Tick
    \/ Prune
    \/ \E p \in SeqWorkers :
          \/ \E data \in LoginBodies : SessionRoom /\ login(p, data)
          \/ AuthenticateStep(p)
          \/ cs_insert(p)

SpecLoginSeq == Init /\ [][NextLoginSeq]_vars

\* the request bodies of a registered, active user who gives the password
GoodLoginBodies ==
    [username : {"admin"}, password : {"Passw0rdA"}, remember : BOOLEAN]

\* logins that pass authentication, on a table other callers add sessions to
NextLoginCreate ==
    \/ Tick
    \/ Prune
    \/ \E p \in SeqWorkers :
          \/ \E remember \in BOOLEAN : create_session(p, 3, remember)
          \/ \E data \in GoodLoginBodies : login(p, data)
          \/ auth_select_user(p)
          \/ ra_delete(p)
          \/ cs_insert(p)

SpecLoginCreate == Init /\ [][NextLoginCreate]_vars

\* the token the workers contend for
ContendedTokens == {"tok1"}

\* the bound on what the runs combine: logins are tried on the store as it
\* was constructed, sessions and passwords are worked on while no failed
\* login is on record
NoSessionsYet == user_sessions = << >> /\ users = InitUsers

NoFailuresOnRecord == rate_limits = << >>

\* a step of one of the five audited operations
AuditedStep(p) ==
    \/ /\ NoSessionsYet
       /\ \E pw \in {"Passw0rdA", "Passw0rdB"} :
             authenticate_user(p, "admin", pw)
    \/ AuthenticateStep(p)
    \/ /\ NoFailuresOnRecord
       /\ \/ \E remember \in BOOLEAN : create_session(p, 1, remember)
          \/ \E t \in ContendedTokens : validate_session(p, t)
          \/ \E t \in ContendedTokens : logout_session(p, t)
          \/ \E pw \in {"Passw0rdA", "Passw0rdB"} :
                change_password(p, 1, pw, "Passw0rdB")
    \/ vs_deactivate(p)
    \/ ls_update(p)
    \/ cp_update_user(p)
    \/ cp_invalidate(p)

\* one caller after another, the audit table failing whenever it likes
NextAuditFlaky ==
    \/ Tick
    \/ Prune
    \/ \E p \in SeqWorkers : AuditedStep(p)

SpecAuditFlaky == InitFlaky /\ [][NextAuditFlaky]_vars

\* a step of any operation of the authentication core
CoreStep(p) ==
    \/ AuditedStep(p)
    \/ NoFailuresOnRecord /\ cleanup_expired_sessions(p)

\* one caller after another runs the operations of the core
NextCoreSeq ==
    \/ Tick
    \/ Prune
    \/ \E p \in SeqWorkers : CoreStep(p)

SpecCoreSeq == Init /\ [][NextCoreSeq]_vars

\* one caller after another creates and validates sessions
NextSessionSeq ==
    \/ Tick
    \/ Prune
    \/ \E p \in SeqWorkers :
          \/ \E u \in UserIds, remember \in BOOLEAN : create_session(p, u, remember)
          \/ \E t \in Tokens \cup {""} : validate_session(p, t)
          \/ vs_deactivate(p)

SpecSessionSeq == Init /\ [][NextSessionSeq]_vars

\* the same calls, the host set to any of the time zones
SpecSessionZones == InitZones /\ [][NextSessionSeq]_vars

\* one caller after another creates sessions and logs them out
NextLogoutSeq ==
    \/ Tick
    \/ Prune
    \/ \E p \in SeqWorkers :
          \/ \E u \in {1, 3} : create_session(p, u, FALSE)
          \/ \E t \in Tokens \cup {""} : logout_session(p, t)
          \/ ls_update(p)

SpecLogoutSeq == Init /\ [][NextLogoutSeq]_vars

\* one caller after another creates sessions and sweeps the expired ones
NextCleanupSeq ==
    \/ Tick
    \/ Prune
    \/ \E p \in SeqWorkers :
          \/ \E u \in UserIds, remember \in BOOLEAN : create_session(p, u, remember)
          \/ cleanup_expired_sessions(p)

SpecCleanupSeq == Init /\ [][NextCleanupSeq]_vars

\* the sweep of expired sessions racing with validations and creations
NextSweepRace ==
    \/ Tick
    \/ Prune
    \/ \E p \in Workers :
          \/ \E remember \in BOOLEAN : create_session(p, 1, remember)
          \/ \E t \in Tokens : validate_session(p, t)
          \/ vs_deactivate(p)
          \/ cleanup_expired_sessions(p)

SpecSweepRace == Init /\ [][NextSweepRace]_vars

\* the user ids change_password is called with: an account and an unknown id
PasswordUserIds == {1, 4}

\* one caller after another creates sessions, changes passwords and validates
NextChangePasswordSeq ==
    \/ Tick
    \/ Prune
    \/ \E p \in SeqWorkers :
          \/ create_session(p, 1, FALSE)
          \/ create_session(p, 3, TRUE)
          \/ \E t \in Tokens : validate_session(p, t)
          \/ vs_deactivate(p)
          \/ \E u \in PasswordUserIds, new \in NewPasswords :
                \E current \in {"Passw0rdA", "Passw0rdB"} :
                   change_password(p, u, current, new)
          \/ cp_update_user(p)
          \/ cp_invalidate(p)

SpecChangePasswordSeq == Init /\ [][NextChangePasswordSeq]_vars

\* one caller after another asks for new passwords of every kind
NextPasswordPolicy ==
    \/ Prune
    \/ \E p \in SeqWorkers :
          \/ create_session(p, 1, FALSE)
          \/ \E u \in PasswordUserIds, new \in PolicyProbes :
                \E current \in {"Passw0rdA", "Passw0rdB"} :
                   change_password(p, u, current, new)
          \/ cp_update_user(p)
          \/ cp_invalidate(p)

SpecPasswordPolicy == Init /\ [][NextPasswordPolicy]_vars

\* the passwords and salts the hashing helpers are applied to
HashProbes == Passwords \cup {""}

HashSalts == {RawBytes(1), RawBytes(4), RawBytes(5)}

\* every variable but call
state_vars == <<now, ticks, rl_schema, utc_offset, audit_sink, rate_limits, users,
                user_sessions, audit_logs, audit_log, pc, frame, returned, history>>

\* _hash_password(password, salt): (password_hash, salt), the salt drawn by
\* secrets.token_bytes when the argument is None
hash_password(password, salt) ==
    /\ \E drawn \in (IF salt = None THEN Salts ELSE {salt}) :
          call' = [fn |-> "_hash_password", args |-> <<password, salt>>,
                   result |-> [password_hash |-> HashPassword(password, drawn),
                              salt |-> drawn],
                   scans |-> << >>]
    /\ UNCHANGED state_vars

\* _verify_password(password, stored_hash, salt)
verify_password(password, stored_hash, salt) ==
    /\ call' = [fn |-> "_verify_password",
                args |-> <<password, stored_hash, salt>>,
                result |-> Bool(VerifyPassword(password, stored_hash, salt)),
                scans |-> << >>]
    /\ UNCHANGED state_vars

\* the hashing helpers applied to every password, digest and salt
NextHashing ==
    \/ \E password \in HashProbes, salt \in HashSalts \cup {None} :
          hash_password(password, salt)
    \/ \E password \in HashProbes, salt \in HashSalts :
          \E hashed \in HashProbes, salted \in HashSalts :
             verify_password(password, HashPassword(hashed, salted), salt)

SpecHashing == Init /\ [][NextHashing]_vars

-----------------------------------------------------------------------------
(* SecurityMiddleware *)

Methods == {"GET", "POST", "PATCH"}

UserAgents == {"Mozilla/5.0", "sqlmap/1.7", "SQLMap/1.7"}

Paths == {"/api/search", "/api/../etc/passwd"}

Queries == {"", "q=' OR 1=1--", "cb=javascript:eval(1)", "q=eval(1)"}

\* bytes that are the UTF-8 encoding of text
Utf8(text) == [bytes |-> "utf-8", of |-> text]

\* the bytes 0xff 0xfe followed by the encoding of text: no UTF-8 text
Binary(text) == [bytes |-> "binary", of |-> text]

\* a request without a body: the stream is empty
NoBody == Utf8("")

SqlBody == Utf8("username=' OR 1=1--&password=test")

CleanBody == Utf8("username=admin&password=test")

BinaryBody == Binary("' OR 1=1--")

Bodies == {NoBody, SqlBody, CleanBody, BinaryBody}

\* len(body)
BodyLength(body) ==
    CASE body = NoBody -> 0
      [] body = SqlBody -> 33
      [] body = CleanBody -> 28
      [] body = BinaryBody -> 12

\* str(n)
Decimal(n) ==
    CASE n = 0 -> "0"
      [] n = 33 -> "33"
      [] n = 28 -> "28"
      [] n = 12 -> "12"

ParseInt_Lenient(text) ==
    CASE text = "0" -> IntValue(0)
      [] text = "33" -> IntValue(33)
      [] text = "28" -> IntValue(28)
      [] text = "12" -> IntValue(12)
      [] OTHER -> IntValue(0)

\* int(text)
ParseInt(text) ==
    CASE text = "0" -> IntValue(0)
      [] text = "33" -> IntValue(33)
      [] text = "28" -> IntValue(28)
      [] text = "12" -> IntValue(12)
      [] OTHER -> Raised("ValueError")

ContentLengths == {Missing, "abc"} \cup {Decimal(BodyLength(b)) : b \in Bodies}

\* the requests: the server hands over a body of CONTENT_LENGTH bytes, and a
\* request without a body may come without the header or with one that is no
\* number
Environs ==
    {e \in [REQUEST_METHOD : Methods, PATH_INFO : Paths, QUERY_STRING : Queries,
            HTTP_USER_AGENT : UserAgents, CONTENT_LENGTH : ContentLengths,
            wsgi_input : Bodies] :
        \/ e.CONTENT_LENGTH = Decimal(BodyLength(e.wsgi_input))
        \/ e.CONTENT_LENGTH \in {Missing, "abc"} /\ e.wsgi_input = NoBody}

\* (status, {'error': error})
Response(status, error) == [status |-> status, error |-> error]

ScannerAgent_CaseSensitive(user_agent) ==
    CASE user_agent = "Mozilla/5.0" -> FALSE
      [] user_agent = "sqlmap/1.7" -> TRUE
      [] user_agent = "SQLMap/1.7" -> FALSE

\* some pattern of blocked_user_agents is found in user_agent by
\* re.search(pattern, user_agent, re.IGNORECASE)
ScannerAgent(user_agent) ==
    CASE user_agent = "Mozilla/5.0" -> FALSE
      [] user_agent = "sqlmap/1.7" -> TRUE
      [] user_agent = "SQLMap/1.7" -> TRUE

\* the pattern lists of which some pattern is found in content.lower() by
\* re.search(pattern, content_lower, re.IGNORECASE): sql_injection_patterns,
\* xss_patterns, file_traversal_patterns, attack_patterns
PatternFamilies(content) ==
    CASE content = "/api/search?" -> {}
      [] content = "/api/search?q=' OR 1=1--" -> {"sql"}
      [] content = "/api/search?cb=javascript:eval(1)" -> {"xss", "attack"}
      [] content = "/api/search?q=eval(1)" -> {"attack"}
      [] content = "/api/../etc/passwd?" -> {"traversal"}
      [] content = "/api/../etc/passwd?q=' OR 1=1--" -> {"sql", "traversal"}
      [] content = "/api/../etc/passwd?cb=javascript:eval(1)" -> {"xss", "traversal", "attack"}
      [] content = "/api/../etc/passwd?q=eval(1)" -> {"traversal", "attack"}
      [] content = "username=' OR 1=1--&password=test" -> {"sql"}
      [] content = "username=admin&password=test" -> {}

\* what is scanned: path + '?' + query_string of the requests, and the bodies
Contents ==
    {p \o "?" \o q : p \in Paths, q \in Queries}
       \cup {SqlBody.of, CleanBody.of}

check_security_threats_TraversalFirst(content) ==
    LET hits == PatternFamilies(content) IN
    IF "traversal" \in hits THEN Str("File traversal attempt")
    ELSE IF "sql" \in hits THEN Str("SQL Injection attempt")
    ELSE IF "xss" \in hits THEN Str("XSS attempt")
    ELSE IF "attack" \in hits THEN Str("Code injection attempt")
    ELSE None

\* _check_security_threats(content)
check_security_threats(content) ==
    LET hits == PatternFamilies(content) IN
    IF "sql" \in hits THEN Str("SQL Injection attempt")
    ELSE IF "xss" \in hits THEN Str("XSS attempt")
    ELSE IF "traversal" \in hits THEN Str("File traversal attempt")
    ELSE IF "attack" \in hits THEN Str("Code injection attempt")
    ELSE None

\* the row AuditLog.log inserts
AuditRow(user_id, action, details, ip_address, user_agent) ==
    [user_id |-> user_id, action |-> action, details |-> details,
     ip_address |-> ip_address, user_agent |-> user_agent]

\* the methods whose body is scanned
BodyMethods == {"POST", "PUT"}

\* what process_request answers to environ (None lets the request pass), the
\* contents it hands to _check_security_threats, and the rows it logs
SecurityCheck(environ) ==
    LET method == environ.REQUEST_METHOD
        path == environ.PATH_INFO
        user_agent == environ.HTTP_USER_AGENT
        url == path \o "?" \o environ.QUERY_STRING
        body == environ.wsgi_input
        content_length == ParseInt(IF environ.CONTENT_LENGTH = Missing
                                   THEN "0" ELSE environ.CONTENT_LENGTH)
        Answer(result, scans, log) ==
            [result |-> result, scans |-> scans, log |-> log]
    IN
    IF ScannerAgent(user_agent)
    THEN Answer(Response(403, "Forbidden"), << >>, << >>)
    ELSE IF check_security_threats(url) # None
    THEN Answer(Response(403, "Security threat detected"), <<url>>,
                <<AuditRow(NULL, "SECURITY_THREAT",
                           "Threat: " \o check_security_threats(url).value
                              \o ", Path: " \o path,
                           ClientIp, user_agent)>>)
    ELSE IF method \notin BodyMethods
    THEN Answer(None, <<url>>, << >>)
    ELSE IF IsRaised(content_length)
    THEN Answer(Response(500, "Security check failed"), <<url>>, << >>)
    ELSE IF content_length.value > 0 /\ body.bytes = "utf-8"
    THEN IF check_security_threats(body.of) # None
         THEN Answer(Response(403, "Security threat detected in request body"),
                     <<url, body.of>>, << >>)
         ELSE Answer(None, <<url, body.of>>, << >>)
    ELSE Answer(None, <<url>>, << >>)

\* SecurityMiddleware.process_request(environ); the INSERT of AuditLog.log
\* raises into the except when the table does not take the write
process_request(environ) ==
    /\ LET c == SecurityCheck(environ) IN
       \/ /\ Len(audit_log \o c.log) <= MaxThreatLog
          /\ audit_log' = audit_log \o c.log
          /\ call' = [fn |-> "process_request", args |-> <<environ>>,
                      result |-> c.result, scans |-> c.scans]
       \/ /\ audit_sink = "flaky"
          /\ c.log # << >>
          /\ Len(audit_log \o c.log) <= MaxThreatLog
          /\ audit_log' = audit_log
          /\ call' = [fn |-> "process_request", args |-> <<environ>>,
                      result |-> Response(500, "Security check failed"),
                      scans |-> c.scans]
    /\ UNCHANGED <<now, ticks, rl_schema, utc_offset, audit_sink, rate_limits, users,
                   user_sessions, audit_logs, pc, frame, returned, history>>

\* _check_security_threats(content) called on its own
scan_content(content) ==
    /\ call' = [fn |-> "_check_security_threats", args |-> <<content>>,
                result |-> check_security_threats(content), scans |-> <<content>>]
    /\ UNCHANGED state_vars

\* requests arrive one after another
NextThreatDetector ==
    \/ \E environ \in Environs : process_request(environ)
    \/ \E content \in Contents : scan_content(content)

SpecThreatDetector == Init /\ [][NextThreatDetector]_vars

\* the same requests, the audit_log table liable to refuse a write
SpecThreatFlaky == InitFlaky /\ [][NextThreatDetector]_vars

-----------------------------------------------------------------------------
(* Startup: server.main runs db_init.py, then init_auth_service(db_path) *)

\* secrets.token_hex(32): the text of the n-th salt drawn
TokenHex(n) == Hex(RawBytes(n))

\* db_init.hash_password and User.hash_password: PBKDF2 over salt.encode('utf-8'),
\* the bytes of the characters of the salt's text; (password_hash, salt) as stored
DbInitCredentials(password, salt) ==
    [password_hash |-> Hex(PBKDF2(password, Utf8(salt))), salt |-> salt]

\* the accounts db_init.py and User.create store, User.delete having disabled one
SeededUsers ==
    1 :> UserRow(1, "admin", "admin@matrica.net",
                 DbInitCredentials("Passw0rdA", TokenHex(1)), "admin", TRUE)
    @@
    2 :> UserRow(2, "guest", "guest@matrica.net",
                 DbInitCredentials("Passw0rdB", TokenHex(2)), "employee", FALSE)
    @@
    3 :> UserRow(3, "staff", "staff@matrica.net",
                 DbInitCredentials("Passw0rdB", TokenHex(3)), "employee", TRUE)

\* a helper that answers nothing was called
Called(fn) == [fn |-> fn, args |-> << >>, result |-> None, scans |-> << >>]

\* db_init.main: CREATE TABLE IF NOT EXISTS rate_limits (id, ip_address,
\* endpoint, requests, window_start); the accounts, unless they exist, and the
\* audit_log row of the administrator's creation
db_init ==
    /\ call = NoCall
    /\ rl_schema' = IF rl_schema = "absent" THEN "ip_address" ELSE rl_schema
    /\ users' = IF users = << >> THEN SeededUsers ELSE users
    /\ audit_log' = IF users = << >>
                    THEN Append(audit_log,
                                AuditRow(1, "CREATE_ADMIN",
                                         "Initial admin user created during system setup",
                                         NullText, NullText))
                    ELSE audit_log
    /\ call' = Called("db_init.main")
    /\ UNCHANGED <<now, ticks, utc_offset, audit_sink, rate_limits, user_sessions,
                   audit_logs, pc, frame, returned, history>>

\* init_auth_service(db_path): RateLimiter._init_rate_limit_table runs CREATE
\* TABLE IF NOT EXISTS rate_limits (identifier, attempts, ...)
init_auth_service ==
    /\ call = Called("db_init.main")
    /\ rl_schema' = IF rl_schema = "absent" THEN "identifier" ELSE rl_schema
    /\ call' = Called("init_auth_service")
    /\ UNCHANGED <<now, ticks, utc_offset, audit_sink, audit_log, rate_limits, users,
                   user_sessions, audit_logs, pc, frame, returned, history>>

\* the server serves requests
Serving == call = Called("init_auth_service")

\* a fresh database file, or the file a former run left
InitStartup ==
    \/ InitOf(0, "ok", "absent", << >>)
    \/ InitOf(0, "ok", "ip_address", SeededUsers)

\* the server starts and then answers one call after another
NextStartup ==
    \/ db_init
    \/ init_auth_service
    \/ /\ Serving
       /\ \/ Tick
          \/ \E p \in SeqWorkers :
                \/ \E i \in RateLimiterIds : check_rate_limit(p, i)
                \/ \E i \in RateLimiterIds, success \in BOOLEAN :
                      record_attempt(p, i, success)
                \/ \E i \in Identifiers, pw \in Passwords :
                      authenticate_user(p, i, pw)

SpecStartup == InitStartup /\ [][NextStartup]_vars

\* AuthService on a rate_limits table of its own, the accounts as db_init.py
\* and User.create store them
InitSeeded == InitOf(0, "ok", "identifier", SeededUsers)

\* one caller after another calls authenticate_user for these accounts; no
\* call gets as far as record_attempt(username, success=True)
NextSeededLogin ==
    \/ Tick
    \/ Prune
    \/ \E p \in SeqWorkers :
          \/ \E i \in Identifiers, pw \in Passwords : authenticate_user(p, i, pw)
          \/ crl_reset(p)
          \/ auth_select_user(p)
          \/ ra_select(p)
          \/ ra_write(p)

SpecSeededLogin == InitSeeded /\ [][NextSeededLogin]_vars

\* one caller after another changes the administrator's password and logs in
NextPasswordLogin ==
    \/ Tick
    \/ Prune
    \/ \E p \in SeqWorkers :
          \/ \E current \in {"Passw0rdA", "Passw0rdB"} :
                \E new \in {"Passw0rdA", "Passw0rdB"} :
                   change_password(p, 1, current, new)
          \/ cp_update_user(p)
          \/ cp_invalidate(p)
          \/ \E pw \in {"Passw0rdA", "Passw0rdB"} :
                authenticate_user(p, "admin", pw)
          \/ AuthenticateStep(p)

SpecPasswordLogin == Init /\ [][NextPasswordLogin]_vars

\* workers running the five operations on sessions side by side
NextSessions ==
    \/ Tick
    \/ Prune
    \/ \E p \in Workers :
          \/ \E remember \in BOOLEAN : create_session(p, 1, remember)
          \/ \E t \in ContendedTokens : validate_session(p, t)
          \/ vs_deactivate(p)
          \/ \E t \in ContendedTokens : logout_session(p, t)
          \/ ls_update(p)
          \/ cleanup_expired_sessions(p)
          \/ change_password(p, 1, "Passw0rdA", "Passw0rdB")
          \/ cp_update_user(p)
          \/ cp_invalidate(p)

SpecSessions == Init /\ [][NextSessions]_vars

\* sessions of accounts that are deactivated while the sessions live
NextUserDeleteSeq ==
    \/ Tick
    \/ Prune
    \/ \E p \in SeqWorkers :
          \/ \E u \in UserIds, remember \in BOOLEAN : create_session(p, u, remember)
          \/ \E t \in Tokens : validate_session(p, t)
          \/ vs_deactivate(p)
          \/ \E u \in UserIds : User_delete(p, u)

SpecUserDeleteSeq == Init /\ [][NextUserDeleteSeq]_vars

\* only failed attempts, made concurrently for one identifier: no success and
\* no reset comes in between
NextFailedAttempts ==
    \/ Tick
    \/ \E p \in Workers, i \in Contended : record_attempt(p, i, FALSE)
    \/ \E p \in Workers : ra_write(p)

SpecFailedAttempts == Init /\ [][NextFailedAttempts]_vars

-----------------------------------------------------------------------------
(* Rate limiting: claims *)

Attempts(identifier) ==
    IF identifier \in DOMAIN rate_limits THEN rate_limits[identifier].attempts ELSE 0

LockedUntil(identifier) ==
    IF identifier \in DOMAIN rate_limits
    THEN rate_limits[identifier].locked_until ELSE NULL

NoCallRunning == \A p \in Workers : pc[p] = "idle"

\* the counter of i is what n consecutive failures, the last at time last, leave
CounterAfterFailures(i) ==
    LET h == history[i] IN
    /\ h.n \in 1..4 =>
          /\ Attempts(i) = h.n
          /\ LockedUntil(i) = NULL
    /\ h.n = 5 =>
          /\ Attempts(i) = 5
          /\ LockedUntil(i) = h.last + 15
          /\ LockedUntil(i) > h.last

\* C1: called by one caller, for every identifier whose counter was absent (or
\* zeroed): once exactly 5 failed record_attempt calls have followed one another,
\* the stored locked_until is the time of the 5th call plus 15 minutes and
\* check_rate_limit, called before that instant, returns allowed = False; after
\* 1 to 4 such calls no locked_until is stored and check_rate_limit returns
\* allowed = True without a locked_until.
C1_LockoutAfterFiveFailures ==
    [][\A i \in RateLimiterIds :
          /\ (NoCallRunning' => CounterAfterFailures(i)')
          /\ \A p \in SeqWorkers :
               check_rate_limit(p, i) =>
                  /\ (history[i].n = 5 /\ now < history[i].last + 15)
                        => /\ returned'.ret.allowed = FALSE
                           /\ returned'.ret.locked_until = history[i].last + 15
                  /\ history[i].n \in 1..4
                        => /\ returned'.ret.allowed = TRUE
                           /\ "locked_until" \notin DOMAIN returned'.ret
      ]_vars

C1_Witness ==
    /\ history["admin"].n = 5
    /\ history["admin"].last > 0
    /\ returned.op = "check_rate_limit"
    /\ returned.identifier = "admin"
    /\ returned.ret.allowed = FALSE

\* C2: called by one caller: check_rate_limit on a counter whose locked_until
\* is at or before the current time goes on to its reset, which stores
\* attempts = 0 with locked_until cleared and returns allowed = True,
\* attempts = 0; on a counter whose locked_until is still in the future it
\* returns allowed = False and leaves the stored counters as they are.
C2_ExpiredLockoutResets ==
    [][\A i \in RateLimiterIds, p \in SeqWorkers :
          /\ (check_rate_limit(p, i) /\ LockedUntil(i) # NULL /\ LockedUntil(i) <= now)
                => /\ pc'[p] = "crl_reset"
                   /\ frame'[p].identifier = i
          /\ (crl_reset(p) /\ frame[p].identifier = i)
                => /\ returned'.op = "check_rate_limit"
                   /\ returned'.identifier = i
                   /\ returned'.ret = [allowed |-> TRUE, attempts |-> 0]
                   /\ Attempts(i)' = 0
                   /\ LockedUntil(i)' = NULL
          /\ (check_rate_limit(p, i) /\ LockedUntil(i) # NULL /\ LockedUntil(i) > now)
                => /\ pc'[p] = "idle"
                   /\ returned'.identifier = i
                   /\ returned'.ret.allowed = FALSE
                   /\ returned'.ret.time_remaining_minutes = LockedUntil(i) - now
                   /\ rate_limits' = rate_limits
      ]_vars

C2_Witness ==
    /\ returned.op = "check_rate_limit"
    /\ returned.identifier = "admin"
    /\ returned.ret = [allowed |-> TRUE, attempts |-> 0]
    /\ history["admin"].lockout_forgiven
    /\ "admin" \in DOMAIN rate_limits
    /\ rate_limits["admin"].attempts = 0
    /\ rate_limits["admin"].locked_until = NULL

SuccessReturned(i) ==
    /\ returned.op = "record_attempt"
    /\ returned.identifier = i
    /\ returned.success
    /\ returned.ret = None

\* C3: called by one caller: whatever the counter of an identifier holds (a
\* lockout included), one record_attempt(identifier, success=True) leaves the
\* identifier without a counter, and the check_rate_limit that follows it
\* returns allowed = True, attempts = 0.
C3_SuccessForgives ==
    [][\A i \in RateLimiterIds, p \in SeqWorkers :
          /\ record_attempt(p, i, TRUE)
                => /\ Attempts(i)' = 0
                   /\ LockedUntil(i)' = NULL
                   /\ SuccessReturned(i)'
          /\ (check_rate_limit(p, i) /\ SuccessReturned(i))
                => returned'.ret = [allowed |-> TRUE, attempts |-> 0]
      ]_vars

C3_Witness ==
    /\ returned.op = "check_rate_limit"
    /\ returned.identifier = "admin"
    /\ returned.ret = [allowed |-> TRUE, attempts |-> 0]
    /\ history["admin"].lockout_forgiven
    /\ "admin" \notin DOMAIN rate_limits

\* C4: whatever calls of check_rate_limit and record_attempt concurrent workers
\* interleave, a stored counter has locked_until set only if its attempts is
\* at least MAX_LOGIN_ATTEMPTS.
C4_LockedOnlyAtMaxAttempts ==
    \A i \in DOMAIN rate_limits :
        rate_limits[i].locked_until # NULL
            => rate_limits[i].attempts >= 5

C4_Witness ==
    /\ LockedUntil("admin") # NULL
    /\ Attempts("admin") > 5
    /\ pc[1] = "ra_write"
    /\ pc[2] = "crl_reset"

\* C5: when the failed attempts that concurrent workers record for one
\* identifier have all finished (no success and no reset in between), the stored
\* attempts is the number of the calls made, and the lockout is set once that
\* number has reached 5.
C5_NoLostFailedAttempt ==
    \A i \in Identifiers :
        NoCallRunning =>
            /\ Attempts(i) = history[i].n
            /\ (history[i].n >= 5 => LockedUntil(i) # NULL)

-----------------------------------------------------------------------------
(* Authentication: claims *)

\* the stored counter of the identifier holds a lockout that has not run out
LockedOut(identifier) ==
    LockedUntil(identifier) # NULL /\ LockedUntil(identifier) > now

LastEvent == audit_logs[Len(audit_logs)]

BlockedEvent(identifier) ==
    [event_type |-> "login_blocked", user_id |-> NULL, username |-> identifier,
     client_ip |-> ClientIp, details |-> [reason |-> "rate_limited"],
     success |-> FALSE]

\* the step is worker p's call authenticate_user(i, pw); the conjuncts before
\* the last follow from it and are there to be tested first
CallsAuthenticate(p, i, pw) ==
    /\ pc[p] = "idle"
    /\ frame'[p].identifier = i \/ returned'.identifier = i
    /\ frame'[p].password = pw \/ returned'.password = pw
    /\ authenticate_user(p, i, pw)

\* C6: whenever authenticate_user is called, by one caller after another, for
\* an identifier whose counter holds a lockout still in the future, with any
\* password (the right one included), the call returns None in its first
\* step, that is before the SELECT on users and before _verify_password; the
\* audit log grows by exactly the login_blocked event of that identifier and
\* the rate_limits table stays as it was.
C6_LockedOutIsBlocked ==
    [][\A p \in SeqWorkers, i \in Identifiers, pw \in Passwords :
          (CallsAuthenticate(p, i, pw) /\ LockedOut(i))
              => /\ pc'[p] = "idle"
                 /\ returned'.op = "authenticate_user"
                 /\ returned'.identifier = i
                 /\ returned'.password = pw
                 /\ IsNone(returned'.ret)
                 /\ audit_logs' = Append(audit_logs, BlockedEvent(i))
                 /\ rate_limits' = rate_limits
      ]_vars

C6_Witness ==
    /\ returned.op = "authenticate_user"
    /\ returned.identifier = "admin"
    /\ returned.password = "Passw0rdA"
    /\ IsNone(returned.ret)
    /\ LockedOut("admin")
    /\ Attempts("admin") = 5
    /\ audit_logs # << >>
    /\ LastEvent = BlockedEvent("admin")

\* C7: whenever a login is posted, by one client after another, with a
\* well-formed body for a username that 5 failed logins have locked out less
\* than 15 minutes ago, the response differs from the response to invalid
\* credentials.
C7_RateLimitedIsDistinct ==
    [][\A p \in SeqWorkers, data \in LoginBodies :
          (/\ login(p, data)
           /\ DOMAIN ValidationErrors(data) = {}
           /\ history[data.username].n = 5
           /\ now < history[data.username].last + 15)
              => returned'.ret # [success |-> FALSE,
                                  error |-> "Invalid credentials"]
      ]_vars

\* the accounts the identifier names, by username or by email
Accounts(identifier) ==
    {u \in DOMAIN users :
        users[u].username = identifier \/ users[u].email = identifier}

\* password is the one the stored credentials of account u were made from
PasswordMatches(u, password) ==
    users[u].password_hash =
        Hex([password |-> password, salt |-> users[u].salt.of])

FailureReason(identifier, password) ==
    IF Accounts(identifier) = {} THEN "user_not_found"
    ELSE IF \E u \in Accounts(identifier) : ~users[u].is_active
    THEN "account_disabled"
    ELSE IF \E u \in Accounts(identifier) : ~PasswordMatches(u, password)
    THEN "invalid_password"
    ELSE "none"

\* a call for an identifier that is not locked out goes on to the users SELECT
GoesOnToLookup(p) ==
    /\ \A i \in Identifiers, pw \in Passwords :
          (CallsAuthenticate(p, i, pw) /\ ~LockedOut(i))
              => pc'[p] \in {"crl_reset", "auth_select_user"}
    /\ (crl_reset(p) /\ frame[p].op = "authenticate_user")
          => pc'[p] = "auth_select_user"

\* C8: whenever authenticate_user is called, by one caller after another, for
\* an identifier that is not locked out, and the identifier is unknown, or the
\* account is disabled, or the password is wrong: the call goes through the
\* failure branch of record_attempt and returns None, the same value in the
\* three cases; the counter of the supplied identifier has grown by one and no
\* other counter has changed; the audit log has grown by one login_failed event
\* whose details name the case.
C8_FailuresLookAlike ==
    [][\A p \in SeqWorkers :
          /\ GoesOnToLookup(p)
          /\ (auth_select_user(p)
               /\ FailureReason(frame[p].identifier, frame[p].password) # "none")
                 => pc'[p] = "ra_select"
          /\ ra_select(p) => pc'[p] = "ra_write"
          /\ \A i \in Identifiers :
               (/\ frame[p].op = "authenticate_user"
                /\ frame[p].identifier = i
                /\ ra_write(p))
                 => /\ returned'.op = "authenticate_user"
                    /\ returned'.identifier = i
                    /\ returned'.ret = None
                    /\ Attempts(i)' = Attempts(i) + 1
                    /\ history'[i].n = history[i].n + 1
                    /\ \A j \in Identifiers \ {i} :
                          /\ Attempts(j)' = Attempts(j)
                          /\ LockedUntil(j)' = LockedUntil(j)
                    /\ Len(audit_logs') = Len(audit_logs) + 1
                    /\ SubSeq(audit_logs', 1, Len(audit_logs)) = audit_logs
                    /\ LastEvent'.event_type = "login_failed"
                    /\ LastEvent'.username = i
                    /\ LastEvent'.details =
                          [reason |-> FailureReason(i, frame[p].password)]
      ]_vars

C8_Witness ==
    /\ returned.op = "authenticate_user"
    /\ returned.identifier = "guest"
    /\ returned.password = "Passw0rdB"
    /\ returned.ret = None
    /\ Attempts("guest") = 1
    /\ Attempts("admin") = 4
    /\ Len(audit_logs) = 2
    /\ audit_logs[1].event_type = "login_failed"
    /\ audit_logs[1].details = [reason |-> "invalid_password"]
    /\ audit_logs[2].event_type = "login_failed"
    /\ audit_logs[2].details = [reason |-> "account_disabled"]

\* C9: whenever authenticate_user is called, by one caller after another, for
\* an identifier that is not locked out and that is the username or the email
\* of an active account, with the password of that account: the call goes
\* through the success branch of record_attempt and returns the record of
\* exactly the id, the username and the role of the account; the identifier
\* is left without a counter and the audit log has grown by one login_success
\* event of that account.
C9_SuccessReturnsUserInfo ==
    [][\A p \in SeqWorkers :
          /\ GoesOnToLookup(p)
          /\ (auth_select_user(p)
               /\ FailureReason(frame[p].identifier, frame[p].password) = "none")
                 => pc'[p] = "ra_delete"
          /\ \A i \in Identifiers, u \in UserIds :
               (/\ frame[p].op = "authenticate_user"
                /\ frame[p].identifier = i
                /\ u \in Accounts(i)
                /\ ra_delete(p))
                 => /\ returned'.op = "authenticate_user"
                    /\ returned'.identifier = i
                    /\ returned'.ret = [id |-> u, username |-> users[u].username,
                                        role |-> users[u].role]
                    /\ i \notin DOMAIN rate_limits'
                    /\ audit_logs' =
                          Append(audit_logs,
                                 [event_type |-> "login_success", user_id |-> u,
                                  username |-> i, client_ip |-> ClientIp,
                                  details |-> NoDetails, success |-> TRUE])
      ]_vars

C9_Witness ==
    /\ returned.op = "authenticate_user"
    /\ returned.identifier = "admin@matrica.net"
    /\ returned.ret = [id |-> 1, username |-> "admin", role |-> "admin"]
    /\ "admin@matrica.net" \notin DOMAIN rate_limits
    /\ Len(audit_logs) = 2
    /\ audit_logs[1].event_type = "login_failed"
    /\ audit_logs[1].username = "admin@matrica.net"
    /\ audit_logs[2].event_type = "login_success"
    /\ audit_logs[2].username = "admin@matrica.net"

-----------------------------------------------------------------------------
(* Sessions: claims *)

\* the minutes a session lives: 8 hours, with remember 168
Lifetime(remember) == IF remember THEN 10080 ELSE 480

\* C10: whenever validate_session is called, by one caller after another, on
\* the token that the last call, a create_session for the id of an active
\* user, has returned, and the lifetime of the session has not passed since:
\* it returns user info whose id is that id and whose role is the role of
\* that user.
C10_FreshSessionValidates ==
    [][\A p \in SeqWorkers, t \in Tokens :
          (/\ validate_session(p, t)
           /\ returned.op = "create_session"
           /\ returned.ret = Str(t)
           /\ returned.user_id \in DOMAIN users
           /\ users[returned.user_id].is_active
           /\ now <= returned.at + Lifetime(returned.remember))
              => /\ returned'.op = "validate_session"
                 /\ returned'.session_token = t
                 /\ ~IsNone(returned'.ret)
                 /\ returned'.ret.id = returned.user_id
                 /\ returned'.ret.role = users[returned.user_id].role
      ]_vars

C10_Witness ==
    /\ returned.op = "validate_session"
    /\ returned.session_token = "tok2"
    /\ ~IsNone(returned.ret)
    /\ returned.ret.id = 3
    /\ returned.ret.role = "employee"
    /\ returned.ret.session_expires = now
    /\ now > 0
    /\ user_sessions["tok2"].user_id = 3
    /\ "tok1" \in DOMAIN user_sessions

\* the stored session of the token is active / is there and inactive
ActiveSession(t) == t \in DOMAIN user_sessions /\ user_sessions[t].is_active

InactiveSession(t) == t \in DOMAIN user_sessions /\ ~user_sessions[t].is_active

\* the table differs from what it was at most by is_active of token t, now false
OnlyDeactivated(t) ==
    /\ DOMAIN user_sessions' = DOMAIN user_sessions
    /\ \A x \in DOMAIN user_sessions :
          user_sessions'[x] =
             IF x = t THEN [user_sessions[x] EXCEPT !.is_active = FALSE]
             ELSE user_sessions[x]

\* C11: whenever validate_session is called, by one caller after another, on
\* the token of an active session whose expires_at is before the current
\* time, it goes on to its UPDATE, which leaves the record in the table with
\* is_active false and nothing else changed, appends the session_expired
\* event of the session's user and returns None; an inactive session stays in
\* the table, inactive, and validate_session on its token returns None and
\* changes nothing.
C11_ExpiredSessionDeactivated ==
    [][\A p \in SeqWorkers, t \in Tokens :
          /\ (validate_session(p, t) /\ ActiveSession(t)
               /\ user_sessions[t].expires_at < now)
                 => /\ pc'[p] = "vs_deactivate"
                    /\ frame'[p].session_token = t
          /\ (frame[p].session_token = t /\ vs_deactivate(p))
                 => /\ returned'.op = "validate_session"
                    /\ returned'.session_token = t
                    /\ IsNone(returned'.ret)
                    /\ OnlyDeactivated(t)
                    /\ InactiveSession(t)'
                    /\ audit_logs' =
                          Append(audit_logs,
                                 [event_type |-> "session_expired",
                                  user_id |-> user_sessions[t].user_id,
                                  username |-> NullText, client_ip |-> NullText,
                                  details |-> [session_token |-> t],
                                  success |-> FALSE])
          /\ (validate_session(p, t) /\ InactiveSession(t))
                 => /\ IsNone(returned'.ret)
                    /\ returned'.session_token = t
                    /\ UNCHANGED <<user_sessions, audit_logs>>
          /\ InactiveSession(t) => InactiveSession(t)'
      ]_vars

C11_Witness ==
    /\ returned.op = "validate_session"
    /\ returned.session_token = "tok1"
    /\ IsNone(returned.ret)
    /\ InactiveSession("tok1")
    /\ user_sessions["tok1"].expires_at < now
    /\ audit_logs # << >>
    /\ LastEvent.event_type = "session_expired"

\* C12: whenever validate_session is called on the token of an active session
\* that has not expired, right after User.delete has deactivated the account
\* the session belongs to, it returns None and leaves the session as it is.
C12_DeactivatedUserRejected ==
    [][\A p \in SeqWorkers, t \in Tokens :
          (/\ validate_session(p, t)
           /\ returned.op = "User_delete"
           /\ ActiveSession(t)
           /\ user_sessions[t].user_id = returned.user_id
           /\ ~users[returned.user_id].is_active
           /\ now <= user_sessions[t].expires_at)
              => /\ IsNone(returned'.ret)
                 /\ user_sessions' = user_sessions
      ]_vars

\* C13: whenever logout_session is called, by one caller after another: on
\* the token of an active session it goes on to its UPDATE, which leaves that
\* session inactive and nothing else changed, appends the logout event of the
\* session's user and returns True; on the empty token, an unknown token or
\* the token of an inactive session (one already logged out among them) it
\* returns False at once and changes neither a session nor the audit log.
C13_LogoutOnce ==
    [][\A p \in SeqWorkers, t \in Tokens \cup {""} :
          /\ (logout_session(p, t) /\ ActiveSession(t))
                 => /\ pc'[p] = "ls_update"
                    /\ frame'[p].session_token = t
          /\ (frame[p].session_token = t /\ ls_update(p))
                 => /\ returned'.op = "logout_session"
                    /\ returned'.session_token = t
                    /\ returned'.ret = Bool(TRUE)
                    /\ OnlyDeactivated(t)
                    /\ InactiveSession(t)'
                    /\ audit_logs' =
                          Append(audit_logs,
                                 [event_type |-> "logout",
                                  user_id |-> user_sessions[t].user_id,
                                  username |-> NullText, client_ip |-> NullText,
                                  details |-> [session_token |-> t],
                                  success |-> TRUE])
          /\ (logout_session(p, t) /\ ~ActiveSession(t))
                 => /\ pc'[p] = "idle"
                    /\ returned'.op = "logout_session"
                    /\ returned'.session_token = t
                    /\ returned'.ret = Bool(FALSE)
                    /\ UNCHANGED <<user_sessions, audit_logs>>
      ]_vars

C13_Witness ==
    /\ returned.op = "logout_session"
    /\ returned.session_token = "tok1"
    /\ returned.ret = Bool(FALSE)
    /\ InactiveSession("tok1")
    /\ now <= user_sessions["tok1"].expires_at
    /\ audit_logs # << >>
    /\ LastEvent.event_type = "logout"
    /\ LastEvent.details = [session_token |-> "tok1"]

\* the sessions of user u
SessionsOf(u) == {t \in DOMAIN user_sessions : user_sessions[t].user_id = u}

\* C14: the last statement of a change_password that succeeds leaves every
\* session of that user inactive and every session of another user as it
\* was, and answers success; a validate_session that follows a successful
\* change_password, on any token of that user, returns None; and no other
\* statement of change_password answers success.
C14_ChangePasswordInvalidates ==
    [][\A p \in SeqWorkers :
          /\ cp_invalidate(p)
                 => /\ returned'.op = "change_password"
                    /\ returned'.ret = [success |-> TRUE]
                    /\ DOMAIN user_sessions' = DOMAIN user_sessions
                    /\ \A t \in DOMAIN user_sessions :
                          IF user_sessions[t].user_id = frame[p].user_id
                          THEN ~user_sessions'[t].is_active
                          ELSE user_sessions'[t] = user_sessions[t]
          /\ \A t \in Tokens :
                (/\ returned.op = "change_password"
                 /\ returned.ret = [success |-> TRUE]
                 /\ t \in SessionsOf(returned.user_id)
                 /\ validate_session(p, t))
                    => /\ IsNone(returned'.ret)
                       /\ pc'[p] = "idle"
          /\ (/\ pc[p] # "idle"
              /\ pc'[p] = "idle"
              /\ returned'.op = "change_password"
              /\ returned'.ret = [success |-> TRUE])
                 => cp_invalidate(p)
      ]_vars

C14_Witness ==
    /\ returned.op = "validate_session"
    /\ returned.session_token = "tok1"
    /\ IsNone(returned.ret)
    /\ InactiveSession("tok1")
    /\ now <= user_sessions["tok1"].expires_at
    /\ users[user_sessions["tok1"].user_id].is_active
    /\ audit_logs # << >>
    /\ LastEvent.event_type = "password_changed"
    /\ LastEvent.user_id = user_sessions["tok1"].user_id
    /\ ActiveSession("tok2")
    /\ user_sessions["tok2"].user_id # user_sessions["tok1"].user_id

\* session t is active and its expires_at is before instant time
ActiveExpired(t, time) ==
    ActiveSession(t) /\ user_sessions[t].expires_at < time

\* C16: cleanup_expired_sessions leaves inactive exactly the active sessions
\* whose expires_at is before the time of the call and changes no other
\* session (one that expires at that very time or later stays active); and a
\* second call that follows a first, no session having an expires_at between
\* the times of the two calls, changes no session.
C16_CleanupExactAndIdempotent ==
    [][\A p \in SeqWorkers :
          cleanup_expired_sessions(p)
             => /\ DOMAIN user_sessions' = DOMAIN user_sessions
                /\ \A t \in DOMAIN user_sessions :
                      user_sessions'[t] =
                         IF ActiveExpired(t, now)
                         THEN [user_sessions[t] EXCEPT !.is_active = FALSE]
                         ELSE user_sessions[t]
                /\ (/\ returned.op = "cleanup_expired_sessions"
                    /\ \A t \in DOMAIN user_sessions :
                          ~(/\ returned.at <= user_sessions[t].expires_at
                            /\ user_sessions[t].expires_at < now))
                       => user_sessions' = user_sessions
      ]_vars

C16_Witness ==
    /\ returned.op = "cleanup_expired_sessions"
    /\ InactiveSession("tok1")
    /\ user_sessions["tok1"].expires_at < returned.at
    /\ ActiveSession("tok2")
    /\ user_sessions["tok2"].expires_at = now
    /\ returned.at = now

\* C18: a create_session(user_id, remember) that returns a token has stored,
\* under that token, which no session carried before, a session of that user
\* that is active and whose expires_at is the time of the call plus 8 hours
\* when remember is false and plus 168 hours when it is true.
C18_ExpiryFromRemember ==
    [][\A p \in SeqWorkers, u \in UserIds, remember \in BOOLEAN, t \in Tokens :
          (/\ pc[p] = "idle"
           /\ returned'.ret = Str(t)
           /\ returned'.user_id = u
           /\ returned'.remember = remember
           /\ create_session(p, u, remember))
             => /\ t \notin DOMAIN user_sessions
                /\ user_sessions'[t].user_id = u
                /\ user_sessions'[t].is_active
                /\ user_sessions'[t].expires_at =
                      now + (IF remember THEN 168 ELSE 8) * 60
      ]_vars

C18_Witness ==
    /\ returned.op = "create_session"
    /\ returned.remember
    /\ returned.at > 0
    /\ returned.ret = Str("tok2")
    /\ ActiveSession("tok2")
    /\ user_sessions["tok2"].expires_at = returned.at + 10080
    /\ "tok1" \in DOMAIN user_sessions
    /\ ~user_sessions["tok1"].expires_at = returned.at + 10080

\* C20: the session table holds one record per token, and create_session
\* keeps it so: a call that returns a token has added exactly one record,
\* under a token no record carried, and left every other record as it was;
\* a call whose generated token a record (active or inactive) carries
\* already returns None and leaves the table and the audit log as they were.
C20_TokensUnique ==
    [][\A p \in SeqWorkers, u \in UserIds, remember \in BOOLEAN :
          (/\ pc[p] = "idle"
           /\ returned'.op = "create_session"
           /\ returned'.user_id = u
           /\ returned'.remember = remember
           /\ create_session(p, u, remember))
             => \/ /\ IsNone(returned'.ret)
                   /\ UNCHANGED <<user_sessions, audit_logs>>
                   /\ DOMAIN user_sessions # {}
                \/ \E t \in Tokens \ DOMAIN user_sessions :
                      /\ returned'.ret = Str(t)
                      /\ DOMAIN user_sessions' = DOMAIN user_sessions \cup {t}
                      /\ \A s \in DOMAIN user_sessions :
                            user_sessions'[s] = user_sessions[s]
      ]_vars

C20_Witness ==
    /\ returned.op = "create_session"
    /\ returned.user_id = 3
    /\ returned.remember
    /\ IsNone(returned.ret)
    /\ DOMAIN user_sessions = {"tok1"}
    /\ user_sessions["tok1"].user_id = 1
    /\ user_sessions["tok1"].expires_at = 480
    /\ now = 480

\* C19: every stored session has expires_at, computed from the process's
\* local clock, after created_at, assigned by the database's CURRENT_TIMESTAMP.
C19_ExpiresAfterCreated ==
    \A t \in DOMAIN user_sessions :
       user_sessions[t].expires_at > user_sessions[t].created_at

\* C15: whatever the workers run side by side -- create_session,
\* validate_session, logout_session, cleanup_expired_sessions,
\* change_password -- no step makes an inactive session active or removes
\* it, and a validate_session called on the token of an inactive session
\* returns None at once.
C15_DeactivationMonotonic ==
    [][\A t \in Tokens :
          /\ InactiveSession(t) => InactiveSession(t)'
          /\ \A p \in Workers :
                (InactiveSession(t) /\ validate_session(p, t))
                   => /\ pc'[p] = "idle"
                      /\ returned'.worker = p
                      /\ returned'.session_token = t
                      /\ IsNone(returned'.ret)
      ]_vars

\* a validation of a logged-out session's token was refused while another
\* worker was in the middle of change_password
C15_Witness ==
    /\ InactiveSession("tok1")
    /\ now <= user_sessions["tok1"].expires_at
    /\ pc[1] = "cp_invalidate"
    /\ ActiveSession("tok2")
    /\ returned.worker = 2
    /\ returned.op = "validate_session"
    /\ returned.session_token = "tok1"
    /\ IsNone(returned.ret)

\* the row validate_session reads for token t
SelectSessionRow(t) == CHOOSE r \in SelectSession(t) : TRUE

\* C17: with the sweep, validations and creations running side by side:
\* a session is deactivated only when its expires_at is before the current
\* time; an inactive session stays inactive; and a validate_session that
\* answers for the token of a stored session either returns that session's
\* user info, the session being active and not expired and left as it is, or
\* returns None and leaves the session inactive, its expires_at in the past.
C17_SweepRaceIsBenign ==
    [][\A t \in DOMAIN user_sessions :
          /\ (ActiveSession(t) /\ ~ActiveSession(t)')
                 => /\ InactiveSession(t)'
                    /\ user_sessions[t].expires_at < now
          /\ InactiveSession(t) => InactiveSession(t)'
          /\ \A p \in Workers :
                (\/ validate_session(p, t) /\ pc'[p] = "idle"
                 \/ frame[p].session_token = t /\ vs_deactivate(p))
                   => \/ /\ ActiveSession(t)
                         /\ ~(user_sessions[t].expires_at < now)
                         /\ returned'.ret = SessionInfo(SelectSessionRow(t))
                         /\ UNCHANGED user_sessions
                      \/ /\ IsNone(returned'.ret)
                         /\ InactiveSession(t)'
                         /\ user_sessions[t].expires_at < now
      ]_vars

\* the sweep has deactivated the session a validation had read as expired
\* and is about to deactivate itself
C17_Witness ==
    /\ pc[1] = "vs_deactivate"
    /\ frame[1].session_token = "tok1"
    /\ InactiveSession("tok1")
    /\ returned.op = "cleanup_expired_sessions"
    /\ returned.worker = 2
    /\ ActiveSession("tok2")

\* worker p's create_session, called directly, makes this step
CreateSessionStep(p) ==
    /\ pc[p] = "idle"
    /\ returned'.op = "create_session"
    /\ \E u \in UserIds, remember \in BOOLEAN : create_session(p, u, remember)

\* C21: a create_session that returns a token, and a login that reports
\* success with one, has stored in that step an active session under that
\* token and appended session_created; a create_session whose INSERT fails
\* returns None, stores nothing and appends nothing, and None is returned
\* only then; the login whose create_session fails answers success False,
\* 'Failed to create session', and a login answers so only then.
C21_NoTokenWithoutSession ==
    [][\A p \in SeqWorkers :
          /\ \A t \in Tokens :
                (\/ CreateSessionStep(p) /\ returned'.ret = Str(t)
                 \/ /\ cs_insert(p)
                    /\ returned'.ret.success
                    /\ returned'.ret.session_token = t)
                   => /\ t \notin DOMAIN user_sessions
                      /\ ActiveSession(t)'
                      /\ Len(audit_logs') = Len(audit_logs) + 1
                      /\ audit_logs'[Len(audit_logs')].event_type
                            = "session_created"
          /\ CreateSessionStep(p)
                 => /\ IsNone(returned'.ret) \/ returned'.ret \in {Str(t) : t \in Tokens}
                    /\ IsNone(returned'.ret) <=> user_sessions' = user_sessions
                    /\ IsNone(returned'.ret) => audit_logs' = audit_logs
          /\ cs_insert(p)
                 => /\ returned'.op = "login"
                    /\ ~returned'.ret.success <=> user_sessions' = user_sessions
                    /\ ~returned'.ret.success
                          => /\ returned'.ret =
                                   [success |-> FALSE,
                                    error |-> "Failed to create session"]
                             /\ audit_logs' = audit_logs
      ]_vars

\* a login passed authentication and failed for want of a session
C21_Witness ==
    /\ returned.op = "login"
    /\ returned.ret = [success |-> FALSE, error |-> "Failed to create session"]
    /\ audit_logs # << >>
    /\ LastEvent.event_type = "login_success"
    /\ \A t \in DOMAIN user_sessions : user_sessions[t].user_id = 3

\* everything but the audit log
Outcome ==
    <<now, ticks, rl_schema, utc_offset, audit_sink, audit_log, call, rate_limits, users,
      user_sessions, pc, frame, returned, history>>

\* C22: the audit table may fail on any write.  No step of
\* authenticate_user, create_session, validate_session, logout_session or
\* change_password raises to its caller; and whenever a step has written its
\* audit event, the same step with the write failing was possible too and
\* ends in the same return value, the same credentials, sessions and
\* rate-limit rows, the audit log alone left as it was.
C22_AuditFailureIsolated ==
    [][\A p \in SeqWorkers :
          AuditedStep(p)
             => /\ ~IsRaised(returned'.ret)
                /\ audit_logs' # audit_logs
                      => \E outcome \in {Outcome'} :
                            ENABLED (/\ AuditedStep(p)
                                     /\ Outcome' = outcome
                                     /\ audit_logs' = audit_logs)
      ]_vars

\* a password was changed and nothing of it reached the audit log
C22_Witness ==
    /\ audit_sink = "flaky"
    /\ returned.op = "change_password"
    /\ returned.ret = [success |-> TRUE]
    /\ audit_logs = << >>
    /\ ticks = 0
    /\ InactiveSession("tok1")
    /\ users[1].password_hash = Hex(PBKDF2("Passw0rdB", RawBytes(4)))

\* sequence a is the beginning of sequence b
IsPrefix(a, b) == Len(a) <= Len(b) /\ SubSeq(b, 1, Len(a)) = a

\* C23: every step of authenticate_user, create_session, validate_session,
\* logout_session, cleanup_expired_sessions and change_password leaves the
\* audit log with the events it had, in their order, at its beginning, and
\* adds at most one event.
C23_AuditAppendOnly ==
    [][\A p \in SeqWorkers :
          CoreStep(p)
             => /\ IsPrefix(audit_logs, audit_logs')
                /\ Len(audit_logs') <= Len(audit_logs) + 1
      ]_vars

C23_Witness ==
    /\ Len(audit_logs) = 2
    /\ audit_logs[1].event_type = "session_created"
    /\ audit_logs[2].event_type = "password_changed"
    /\ returned.op = "change_password"

\* the rules a new password breaks
BrokenRules(new) ==
    CASE new = "short" -> {"length", "uppercase", "digit"}
      [] new = "Password" -> {"digit", "common"}
      [] new = "passw0rdb" -> {"uppercase"}
      [] new = "PASSW0RDB" -> {"lowercase"}
      [] new = Password129 -> {"too long"}
      [] OTHER -> {}

\* the rule an error message of the policy cites
RuleCited(message) ==
    CASE message = "Password must be at least 8 characters long" -> "length"
      [] message = "Password must be less than 128 characters" -> "too long"
      [] message = "Password must contain at least one uppercase letter"
            -> "uppercase"
      [] message = "Password must contain at least one lowercase letter"
            -> "lowercase"
      [] message = "Password must contain at least one number" -> "digit"
      [] message = "Password is too common" -> "common"

\* C24: change_password answers success False, error 'invalid_password' and
\* the list of the rules broken, one message each, exactly when the new
\* password breaks a rule of the policy; it then returns at once, the users,
\* the sessions and the audit log as they were (so a wrong current password
\* is not noticed); "short" is cited for its length, its want of an
\* uppercase letter and of a digit, and a password of 128 characters passes.
C24_PolicyRejection ==
    [][\A p \in SeqWorkers, u \in PasswordUserIds, new \in PolicyProbes :
          \A current \in {"Passw0rdA", "Passw0rdB"} :
             (pc[p] = "idle" /\ change_password(p, u, current, new))
                => IF BrokenRules(new) # {}
                   THEN /\ pc'[p] = "idle"
                        /\ returned'.op = "change_password"
                        /\ DOMAIN returned'.ret = {"success", "error", "details"}
                        /\ returned'.ret.success = FALSE
                        /\ returned'.ret.error = "invalid_password"
                        /\ Len(returned'.ret.details)
                              = Cardinality(BrokenRules(new))
                        /\ {RuleCited(returned'.ret.details[k]) :
                               k \in 1..Len(returned'.ret.details)}
                              = BrokenRules(new)
                        /\ UNCHANGED <<users, user_sessions, audit_logs>>
                   ELSE \/ pc'[p] # "idle"
                        \/ returned'.ret.error # "invalid_password"
      ]_vars

\* "short" was turned down for a user whose current password was wrong too
C24_Witness ==
    /\ returned.op = "change_password"
    /\ returned.user_id = 1
    /\ returned.password = "Passw0rdB"
    /\ returned.ret =
          [success |-> FALSE, error |-> "invalid_password",
           details |-> <<"Password must be at least 8 characters long",
                         "Password must contain at least one uppercase letter",
                         "Password must contain at least one number">>]
    /\ users = InitUsers
    /\ \E t \in DOMAIN user_sessions : ActiveSession(t)

\* the password user u's stored hash was computed from
PasswordOf(u) == FromHex(users[u].password_hash).password

\* C25: change_password for an existing user, the new password passing the
\* policy and the current password given not the one the stored hash was
\* made from, answers success False (invalid_current_password) at once,
\* appends password_change_failed for that user and leaves every user's
\* hash and salt and every session as they were.
C25_WrongCurrentPassword ==
    [][\A p \in SeqWorkers, u \in PasswordUserIds \cap DOMAIN users :
          \A current \in {"Passw0rdA", "Passw0rdB"}, new \in NewPasswords :
             (/\ pc[p] = "idle"
              /\ new # "short"
              /\ current # PasswordOf(u)
              /\ change_password(p, u, current, new))
                => /\ pc'[p] = "idle"
                   /\ returned'.op = "change_password"
                   /\ returned'.ret =
                         [success |-> FALSE, error |-> "invalid_current_password"]
                   /\ audit_logs' =
                         Append(audit_logs,
                                [event_type |-> "password_change_failed",
                                 user_id |-> u,
                                 username |-> users[u].username,
                                 client_ip |-> NullText,
                                 details |-> [reason |-> "invalid_current_password"],
                                 success |-> FALSE])
                   /\ UNCHANGED <<users, user_sessions>>
      ]_vars

C25_Witness ==
    /\ returned.op = "change_password"
    /\ returned.user_id = 1
    /\ returned.password = "Passw0rdA"
    /\ returned.ret = [success |-> FALSE, error |-> "invalid_current_password"]
    /\ PasswordOf(1) = "Passw0rdB"
    /\ audit_logs # << >>
    /\ LastEvent.event_type = "password_change_failed"
    /\ \E t \in DOMAIN user_sessions :
          ActiveSession(t) /\ user_sessions[t].user_id = 1

\* the stored hash of user u was computed with the stored salt of user u
HashGoesWithSalt(u) ==
    FromHex(users[u].password_hash).salt = FromHex(users[u].salt)

\* C26: a successful change_password stores the hash of the new password and
\* the salt it was computed with in one update, so no state pairs a hash with
\* another salt, and that salt is one drawn in the call; the call appends a
\* password_changed event and returns success; the next authenticate_user of
\* the user that gets past the rate limiter succeeds with the new password
\* and fails with the old one (when the two differ).
C26_HashAndSaltTogether ==
    [][/\ \A u \in DOMAIN users : HashGoesWithSalt(u) /\ HashGoesWithSalt(u)'
       /\ \A p \in SeqWorkers :
             /\ (pc[p] = "cp_update_user" /\ cp_update_user(p))
                   => \E new_salt \in Salts :
                         /\ users'[frame[p].user_id].salt = Hex(new_salt)
                         /\ users'[frame[p].user_id].password_hash
                               = Hex(HashPassword(frame[p].new_password, new_salt))
                         /\ \A v \in DOMAIN users \ {frame[p].user_id} :
                               users'[v] = users[v]
             /\ (pc[p] = "cp_invalidate" /\ cp_invalidate(p))
                   => /\ returned'.ret = CpSuccess
                      /\ PasswordOf(frame[p].user_id) = frame[p].new_password
                      /\ audit_logs' = Append(audit_logs,
                            Event("password_changed", frame[p].user_id,
                                  users[frame[p].user_id].username,
                                  NullText, NoDetails, TRUE))
             /\ (/\ returned.op = "change_password"
                 /\ returned.ret = CpSuccess
                 /\ frame[p].op = "authenticate_user"
                 /\ frame[p].identifier = users[returned.user_id].username
                 /\ pc'[p] = "idle"
                 /\ (ra_delete(p) \/ ra_write(p)))
                   => /\ frame[p].password = PasswordOf(returned.user_id)
                           => returned'.ret = UserInfo(users[returned.user_id])
                      /\ (/\ frame[p].password = returned.password
                          /\ frame[p].password # PasswordOf(returned.user_id))
                           => IsNone(returned'.ret)
      ]_vars

C26_Witness ==
    /\ returned.op = "authenticate_user"
    /\ returned.password = "Passw0rdB"
    /\ returned.ret = UserInfo(users[1])
    /\ users[1].salt = Hex(RawBytes(5))
    /\ PasswordOf(1) = "Passw0rdB"
    /\ Len(audit_logs) >= 2
    /\ audit_logs[Len(audit_logs) - 1].event_type = "password_changed"
    /\ LastEvent.event_type = "login_success"

LastEnviron == call.args[1]

\* C28: a request whose user agent holds a scanner signature, in any letter
\* case, is answered 403 Forbidden with nothing handed to the pattern scan:
\* not the path, not the query, not the body, whatever they hold.
C28_ScannerAgentBlockedFirst ==
    (/\ call.fn = "process_request"
     /\ LastEnviron.HTTP_USER_AGENT \in {"sqlmap/1.7", "SQLMap/1.7"})
       => /\ call.result = Response(403, "Forbidden")
          /\ call.scans = << >>

C28_Witness ==
    /\ call.fn = "process_request"
    /\ LastEnviron.HTTP_USER_AGENT = "SQLMap/1.7"
    /\ LastEnviron.REQUEST_METHOD = "POST"
    /\ LastEnviron.PATH_INFO = "/api/../etc/passwd"
    /\ LastEnviron.QUERY_STRING = "q=' OR 1=1--"
    /\ LastEnviron.wsgi_input = SqlBody
    /\ call.result = Response(403, "Forbidden")
    /\ audit_log = << >>

\* C29: _check_security_threats answers with the label of the first pattern
\* family, in the order SQL injection, script injection, path traversal, code
\* injection, that has a match in the content, and with None when no family
\* has one; /api/search?q=' OR 1=1-- is answered "SQL Injection attempt", and
\* a request with that path and query from a browser is blocked for it.
C29_FirstFamilyInOrder ==
    /\ call.fn = "_check_security_threats"
         => LET hits == PatternFamilies(call.args[1]) IN
            /\ "sql" \in hits => call.result = Str("SQL Injection attempt")
            /\ ("sql" \notin hits /\ "xss" \in hits)
                 => call.result = Str("XSS attempt")
            /\ (hits \cap {"sql", "xss"} = {} /\ "traversal" \in hits)
                 => call.result = Str("File traversal attempt")
            /\ hits = {"attack"} => call.result = Str("Code injection attempt")
            /\ hits = {} => call.result = None
            /\ call.args[1] = "/api/search?q=' OR 1=1--"
                 => call.result = Str("SQL Injection attempt")
    /\ (/\ call.fn = "process_request"
        /\ LastEnviron.HTTP_USER_AGENT = "Mozilla/5.0"
        /\ LastEnviron.PATH_INFO = "/api/search"
        /\ LastEnviron.QUERY_STRING = "q=' OR 1=1--")
         => /\ call.result = Response(403, "Security threat detected")
            /\ audit_log # << >>
            /\ audit_log[Len(audit_log)].details
                 = "Threat: SQL Injection attempt, Path: /api/search"

C29_Witness ==
    /\ call.fn = "_check_security_threats"
    /\ call.args[1] = "/api/../etc/passwd?q=' OR 1=1--"
    /\ PatternFamilies(call.args[1]) = {"sql", "traversal"}
    /\ call.result = Str("SQL Injection attempt")

\* C30: whatever the request method, a request from a browser with a clean
\* path and query and a UTF-8 body that holds a threat pattern is blocked.
C30_BodyScannedForEveryMethod ==
    (/\ call.fn = "process_request"
     /\ LastEnviron.HTTP_USER_AGENT = "Mozilla/5.0"
     /\ PatternFamilies(LastEnviron.PATH_INFO \o "?" \o LastEnviron.QUERY_STRING) = {}
     /\ LastEnviron.wsgi_input = SqlBody
     /\ LastEnviron.CONTENT_LENGTH = "33")
       => /\ call.result # None
          /\ call.scans = <<"/api/search?", SqlBody.of>>

\* the answer blocks the request as a threat
IsBlock(result) == result # None /\ result.status = 403

\* C31: every process_request that blocks a request (for its user agent, for
\* its path or query, for its body) adds a row to the audit table.
C31_EveryBlockAudited ==
    [][\A environ \in Environs :
          (process_request(environ) /\ IsBlock(call'.result))
             => /\ Len(audit_log') = Len(audit_log) + 1
                /\ audit_log'[Len(audit_log')].action = "SECURITY_THREAT"
      ]_vars

\* C32: a call of authenticate_user, create_session, validate_session,
\* logout_session or change_password in which a statement fails on the
\* database returns to its caller (with None, False or internal_error): no
\* exception comes out of it.
C32_StorageFailureIsGeneric ==
    returned.op \in {"authenticate_user", "create_session", "validate_session",
                     "logout_session", "change_password"}
       => ~IsRaised(returned.ret)

\* C36: once db_init and init_auth_service have run, the rate_limits table has
\* the identifier column RateLimiter's statements name, and check_rate_limit
\* and record_attempt end without a database error.
C36_RateLimitTableAfterStartup ==
    Serving
       => /\ RateLimitTableUsable
          /\ returned.op \in {"check_rate_limit", "record_attempt"}
               => ~IsRaised(returned.ret)

\* C33: authenticate_user called with the username and the password of the
\* active administrator db_init.py created, and not turned away by the rate
\* limiter, returns that user.
C33_SeededUserLogsIn ==
    (/\ returned.op = "authenticate_user"
     /\ returned.identifier = "admin"
     /\ returned.password = PasswordOf(1)
     /\ users[1].is_active
     /\ audit_logs # << >>
     /\ LastEvent.event_type # "login_blocked")
       => returned.ret = UserInfo(users[1])

-----------------------------------------------------------------------------
(* MatricaWSGIApp._handle_api, AuthMiddleware.process_request and the
   handlers of AuthController behind them *)

\* some of the keys of api_routes, none of them parameterized
ApiRoutes == {"POST /api/auth/logout", "GET /api/me", "POST /api/contact"}

ApiMethods == {"GET", "POST"}

ApiPaths == {"/api/auth/logout", "/api/me", "/api/contact", "/api/nothing"}

\* _match_route's "if not route_key"
NoRoute == ""

\* _match_route for paths that no parameterized pattern matches: the key
\* whose method and path are the request's
match_route(method, path) ==
    IF (method \o " " \o path) \in ApiRoutes THEN method \o " " \o path
    ELSE NoRoute

IsPublicPath_All(path) == TRUE

\* path.startswith('/api/auth/login') or path.startswith('/api/contact'), for
\* the paths of ApiPaths
IsPublicPath(path) == path = "/api/contact"

\* Cookie headers: none, the session cookie alone, another cookie alone, both
CookieHeaders ==
    {"", "theme=dark", "theme=dark; session_token=tok1"}
      \cup {"session_token=" \o t : t \in Tokens}

\* AuthMiddleware._extract_session_token: the value of the cookie
\* session_token, "" standing for the None of a header without it
extract_session_token(cookie_header) ==
    IF \E t \in Tokens : cookie_header \in {"session_token=" \o t,
                                            "theme=dark; session_token=" \o t}
    THEN CHOOSE t \in Tokens : cookie_header \in {"session_token=" \o t,
                                                  "theme=dark; session_token=" \o t}
    ELSE ""

ApiRequests == [method : ApiMethods, path : ApiPaths, cookie : CookieHeaders]

\* the keys of the request_context _handle_api hands to the handler
RequestContextKeys == {"method", "path", "body", "query", "params", "session",
                       "client_ip", "user_agent"}

\* request_context.get('session_token'), "" standing for None: the token is
\* in request_context['session'], not under a key of its own
ContextSessionToken(f) ==
    IF "session_token" \in RequestContextKeys THEN f.session_token ELSE ""

\* response = handler(request_context); the 200 response with it.
\* logout: logs the session out if the context has a session token, and
\* answers success either way.  me: answers 'Not authenticated' unless the
\* context has a session token.  The other handlers are not modelled beyond
\* their being called.
CallHandler(p, f) ==
    CASE f.route = "POST /api/auth/logout" ->
            IF ContextSessionToken(f) # ""
            THEN LsSelect(p, [f EXCEPT !.session_token = ContextSessionToken(f)])
            ELSE /\ Return(p, f, ApiResponse(200, LogoutSuccess))
                 /\ UNCHANGED <<now, ticks, rl_schema, utc_offset, audit_sink,
                                audit_log, call, rate_limits, users,
                                user_sessions, audit_logs, history>>
      [] f.route = "GET /api/me" /\ ContextSessionToken(f) = "" ->
            /\ Return(p, f, ApiResponse(200, [success |-> FALSE,
                                              authenticated |-> FALSE,
                                              error |-> "Not authenticated"]))
            /\ UNCHANGED <<now, ticks, rl_schema, utc_offset, audit_sink,
                           audit_log, call, rate_limits, users,
                           user_sessions, audit_logs, history>>
      [] OTHER ->
            /\ Return(p, f, ApiResponse(200, [handler |-> f.route]))
            /\ UNCHANGED <<now, ticks, rl_schema, utc_offset, audit_sink,
                           audit_log, call, rate_limits, users,
                           user_sessions, audit_logs, history>>

\* _handle_api up to the handler: the route, then for a protected path
\* AuthMiddleware.process_request, which answers 401 without a token and
\* otherwise asks validate_session
handle_api(p, request) ==
    /\ pc[p] = "idle"
    /\ AuditRoom(1)
    /\ LET route == match_route(request.method, request.path)
           f == [IdleFrame EXCEPT !.op = "handle_api", !.route = route,
                                  !.identifier = request.path]
           token == extract_session_token(request.cookie)
       IN
       IF route = NoRoute
       THEN /\ Return(p, f, ApiResponse(404, [error |-> "Endpoint not found"]))
            /\ UNCHANGED <<now, ticks, rl_schema, utc_offset, audit_sink,
                           audit_log, call, rate_limits, users,
                           user_sessions, audit_logs, history>>
       ELSE IF IsPublicPath(request.path)
       THEN CallHandler(p, f)
       ELSE IF token = ""
       THEN /\ Return(p, f, ApiResponse(401, [error |-> "Authentication required"]))
            /\ UNCHANGED <<now, ticks, rl_schema, utc_offset, audit_sink,
                           audit_log, call, rate_limits, users,
                           user_sessions, audit_logs, history>>
       ELSE VsSelect(p, [f EXCEPT !.session_token = token])

\* _handle_api from "Prepare request context" on, authentication passed
call_handler(p) ==
    /\ pc[p] = "call_handler"
    /\ CallHandler(p, frame[p])

\* one client: requests, and the calls of AuthService that make the sessions
\* they come with
NextApi ==
    \/ Tick
    \/ Prune
    \/ \E p \in SeqWorkers :
          \/ \E request \in ApiRequests : handle_api(p, request)
          \/ call_handler(p)
          \/ vs_deactivate(p)
          \/ \E remember \in BOOLEAN : create_session(p, 1, remember)
          \/ \E t \in Tokens : logout_session(p, t)
          \/ ls_update(p)

SpecApi == Init /\ [][NextApi]_vars

\* what validate_session(session_token) returns in the present state
ValidateSessionResult(session_token) ==
    IF session_token = "" \/ SelectSession(session_token) = {} THEN None
    ELSE LET session == CHOOSE r \in SelectSession(session_token) : TRUE IN
         IF SessionExpired(session, now) \/ ~SessionIsActive(session) THEN None
         ELSE SessionInfo(session)

\* C34: after a logout request made with a valid session has been answered
\* with success, validate_session on that session's token returns None
C34_LogoutEndsSession ==
    (/\ returned.op = "handle_api"
     /\ returned.route = "POST /api/auth/logout"
     /\ ~IsNone(returned.auth) /\ returned.auth # Pending
     /\ returned.ret = ApiResponse(200, LogoutSuccess))
       => IsNone(ValidateSessionResult(returned.session_token))

-----------------------------------------------------------------------------
(* concurrent logins for one identifier *)

\* callers on several threads call authenticate_user for the same identifier
NextLoginRace ==
    \/ Tick
    \/ Prune
    \/ \E p \in Workers :
          \/ \E i \in Contended, pw \in Passwords : authenticate_user(p, i, pw)
          \/ AuthenticateStep(p)

SpecLoginRace == Init /\ [][NextLoginRace]_vars

\* C37: however concurrent authenticate_user calls for one identifier
\* interleave, no more than MAX_LOGIN_ATTEMPTS failed verifications are made
\* for it between two resets of its counter
C37_NoSixthGuess ==
    \A i \in Contended : history[i].n <= MAX_LOGIN_ATTEMPTS

-----------------------------------------------------------------------------
(* a login and a change of password for the same user, on two threads *)

\* the administrator's login, with the password of the moment or another
AdminLoginBodies ==
    [username : {"admin"}, password : {"Passw0rdA", "Passw0rdB"},
     remember : {FALSE}]

\* the same external process at work while requests are being served
Archive ==
    /\ audit_logs # << >>
    /\ audit_logs' = << >>
    /\ UNCHANGED <<now, ticks, rl_schema, utc_offset, audit_sink, audit_log, call, rate_limits, users, user_sessions,
                   pc, frame, returned, history>>

NextLoginChange ==
    \/ Tick
    \/ Archive
    \/ \E data \in AdminLoginBodies : SessionRoom /\ login(1, data)
    \/ AuthenticateStep(1)
    \/ cs_insert(1)
    \/ \E current \in {"Passw0rdA", "Passw0rdB"}, new \in {"Passw0rdA", "Passw0rdB"} :
          change_password(2, 1, current, new)
    \/ cp_update_user(2)
    \/ cp_invalidate(2)

SpecLoginChange == Init /\ [][NextLoginChange]_vars

\* C38: a login and a change_password for the same user interleaving, once
\* change_password has returned there is no active session that a login
\* issued after authenticating against the password it replaced
C38_NoSessionOnOldPassword ==
    (/\ returned.op = "login"
     /\ returned.ret.success
     /\ returned.identifier = "admin"
     /\ returned.password # PasswordOf(1)
     /\ \A p \in DOMAIN pc : pc[p] = "idle")
       => ~(/\ returned.ret.session_token \in DOMAIN user_sessions
            /\ user_sessions[returned.ret.session_token].is_active)

\* texts int() takes
IntegerTexts == {"0"} \cup {Decimal(BodyLength(b)) : b \in Bodies}

\* C39: when process_request meets an internal error, a CONTENT_LENGTH that
\* is not a number on a request whose body it is about to read, or an audit
\* row that could not be written, its answer is status 500 and never None
C39_FailsClosed ==
    [][call'.fn = "process_request"
          => LET environ == call'.args[1]
                 blocked_agent == ScannerAgent(environ.HTTP_USER_AGENT)
                 url_threat ==
                    check_security_threats(environ.PATH_INFO \o "?"
                                              \o environ.QUERY_STRING) # None
             IN /\ (/\ ~blocked_agent
                    /\ ~url_threat
                    /\ environ.REQUEST_METHOD \in {"POST", "PUT"}
                    /\ environ.CONTENT_LENGTH # Missing
                    /\ environ.CONTENT_LENGTH \notin IntegerTexts)
                      => call'.result = Response(500, "Security check failed")
                /\ (~blocked_agent /\ url_threat /\ audit_log' = audit_log)
                      => call'.result = Response(500, "Security check failed")
      ]_vars

\* a request with a threat in its URL met a failing audit write and was
\* answered 500
C39_Witness ==
    /\ call.fn = "process_request"
    /\ call.result = Response(500, "Security check failed")
    /\ call.scans # << >>
    /\ check_security_threats(call.scans[1]) # None
    /\ audit_log = << >>

\* C40: no lockout is permanent: a counter that has reached
\* MAX_LOGIN_ATTEMPTS carries a locked_until, LOCKOUT_DURATION_MINUTES after
\* its last recorded failure, so check_rate_limit denies an identifier only
\* within that time of the last failure on record and allows it from then on
C40_NoPermanentLockout ==
    [][/\ \A i \in DOMAIN rate_limits' :
             rate_limits'[i].attempts >= MAX_LOGIN_ATTEMPTS
                => /\ rate_limits'[i].locked_until # NULL
                   /\ rate_limits'[i].locked_until
                         = rate_limits'[i].last_attempt + LOCKOUT_DURATION_MINUTES
       /\ \A p \in Workers :
             /\ \A i \in Contended :
                   (check_rate_limit(p, i) /\ pc'[p] = "idle")
                      => \/ returned'.ret.allowed
                         \/ /\ i \in DOMAIN rate_limits
                            /\ rate_limits[i].last_attempt # NULL
                            /\ now < rate_limits[i].last_attempt
                                        + LOCKOUT_DURATION_MINUTES
             /\ crl_reset(p) => returned'.ret.allowed
      ]_vars

\* a locked-out identifier was allowed again, its counter reset
C40_Witness ==
    /\ returned.op = "check_rate_limit"
    /\ returned.ret.allowed
    /\ history[returned.identifier].lockout_forgiven
    /\ returned.identifier \in DOMAIN rate_limits
    /\ rate_limits[returned.identifier] = ResetRow

=============================================================================
